---- MODULE Spec2Model ----
(***************************************************************************)
(* A model of the raw-TCP HTTP/1.1 server: the wire parser, the response   *)
(* builder, the middleware pipeline and the per-connection driver.         *)
(*                                                                         *)
(* A byte is a one-character string and a Buffer is a sequence of bytes.   *)
(* Offsets are 0-based as in the source; SubSeq is only used inside Slice. *)
(***************************************************************************)
EXTENDS Integers, Sequences, FiniteSets, TLC

(***************************************************************************)
(* Wire constants (http/constants.js)                                      *)
(***************************************************************************)
CRLF == <<"\r", "\n">>

MAX_HEADER_SIZE == 8 * 1024

MAX_BODY_SIZE == 1 * 1024 * 1024

M_GET == <<"G", "E", "T">>
M_POST == <<"P", "O", "S", "T">>
M_PUT == <<"P", "U", "T">>
M_DELETE == <<"D", "E", "L", "E", "T", "E">>
M_PATCH == <<"P", "A", "T", "C", "H">>
M_HEAD == <<"H", "E", "A", "D">>
M_OPTIONS == <<"O", "P", "T", "I", "O", "N", "S">>

\* Own keys of the HTTP_METHODS object.
HTTP_METHODS == {M_GET, M_POST, M_PUT, M_DELETE, M_PATCH, M_HEAD, M_OPTIONS}

\* HTTP_METHODS is a plain object literal: a lookup HTTP_METHODS[name] also
\* finds the properties inherited from Object.prototype, all of them truthy.
ObjectPrototypeKeys ==
    { <<"c", "o", "n", "s", "t", "r", "u", "c", "t", "o", "r">>,
      <<"t", "o", "S", "t", "r", "i", "n", "g">>,
      <<"v", "a", "l", "u", "e", "O", "f">> }

(***************************************************************************)
(* Buffer and string primitives used by the parser                         *)
(***************************************************************************)
\* const name = value; the rest: the value v is bound to the parameter of F.
Let(v, F(_)) == F(v)

Min(a, b) == IF a < b THEN a ELSE b

Max(a, b) == IF a > b THEN a ELSE b

\* Index normalisation of Buffer.slice / String.slice: negative counts from
\* the end, everything is clamped to [0, n].
ClampIdx(i, n) == IF i < 0 THEN Max(n + i, 0) ELSE Min(i, n)

\* buf.slice(s, e): bytes s .. e-1.
Slice(buf, s, e) ==
    LET n == Len(buf)
        a == ClampIdx(s, n)
        b == ClampIdx(e, n)
    IN  IF b <= a THEN <<>> ELSE SubSeq(buf, a + 1, b)

\* buf.slice(s)
SliceFrom(buf, s) == Slice(buf, s, Len(buf))

MatchAt(buf, needle, i) ==
    /\ i + Len(needle) <= Len(buf)
    /\ \A k \in 1..Len(needle) : buf[i + k] = needle[k]

\* buf.indexOf(needle, from): first 0-based offset >= from, or -1.
IndexOf(buf, needle, from) ==
    LET f == IF from < 0 THEN Max(Len(buf) + from, 0) ELSE from
        S == {i \in f..(Len(buf) - Len(needle)) : MatchAt(buf, needle, i)}
    IN  IF S = {} THEN -1 ELSE CHOOSE i \in S : \A j \in S : i <= j

StartsWith(s, p) == MatchAt(s, p, 0)

RECURSIVE Split(_, _)
\* s.split(sep) for a non-empty separator; "".split(sep) is [""].
Split(s, sep) ==
    LET i == IndexOf(s, sep, 0)
    IN  IF i = -1 THEN <<s>>
        ELSE <<Slice(s, 0, i)>> \o Split(SliceFrom(s, i + Len(sep)), sep)

UpperChars == <<"A", "B", "C", "D", "E", "F", "G", "H", "I", "J", "K", "L", "M",
                "N", "O", "P", "Q", "R", "S", "T", "U", "V", "W", "X", "Y", "Z">>

LowerChars == <<"a", "b", "c", "d", "e", "f", "g", "h", "i", "j", "k", "l", "m",
                "n", "o", "p", "q", "r", "s", "t", "u", "v", "w", "x", "y", "z">>

LowerChar(c) ==
    IF \E k \in 1..26 : UpperChars[k] = c
    THEN LowerChars[CHOOSE k \in 1..26 : UpperChars[k] = c]
    ELSE c

\* s.toLowerCase()
ToLowerCase(s) == [k \in 1..Len(s) |-> LowerChar(s[k])]

WhiteSpace == {" ", "\t", "\r", "\n", "\f"}

\* s.trim()
Trim(s) ==
    IF \A k \in 1..Len(s) : s[k] \in WhiteSpace THEN <<>>
    ELSE SubSeq(s,
                CHOOSE k \in 1..Len(s) :
                    s[k] \notin WhiteSpace /\ \A j \in 1..(k - 1) : s[j] \in WhiteSpace,
                CHOOSE k \in 1..Len(s) :
                    s[k] \notin WhiteSpace /\ \A j \in (k + 1)..Len(s) : s[j] \in WhiteSpace)

DecDigits == <<"0", "1", "2", "3", "4", "5", "6", "7", "8", "9">>

HexDigits == DecDigits \o <<"a", "b", "c", "d", "e", "f">>

\* Value of digit c in the given radix, or -1.
DigitVal(c, radix) ==
    Let({k \in 1..radix : HexDigits[k] = LowerChar(c)}, LAMBDA K :
        IF K = {} THEN -1 ELSE (CHOOSE k \in K : TRUE) - 1)

RECURSIVE DigitRun(_, _, _, _)
\* Accumulates the longest run of digits of s from 1-based position k on;
\* the result is <<number of digits, value>>.
DigitRun(s, k, radix, acc) ==
    IF k > Len(s) THEN <<0, acc>>
    ELSE Let(DigitVal(s[k], radix), LAMBDA d :
         IF d = -1 THEN <<0, acc>>
         ELSE Let(DigitRun(s, k + 1, radix, acc * radix + d), LAMBDA r :
              <<r[1] + 1, r[2]>>))

\* parseInt(s, radix) for radix 10 and 16: leading white space, an optional
\* sign, for radix 16 an optional 0x, then the longest run of digits.
\* The result is [nan |-> TRUE, ...] for NaN or [nan |-> FALSE, val |-> n].
ParseInt(s, radix) ==
    Let(IF \A k \in 1..Len(s) : s[k] \in WhiteSpace THEN Len(s) + 1
        ELSE CHOOSE k \in 1..Len(s) :
                s[k] \notin WhiteSpace /\ \A j \in 1..(k - 1) : s[j] \in WhiteSpace,
        LAMBDA first :
    Let(first <= Len(s) /\ s[first] \in {"+", "-"}, LAMBDA signed :
    Let(IF signed THEN first + 1 ELSE first, LAMBDA p :
    Let(/\ radix = 16
        /\ p + 1 <= Len(s)
        /\ s[p] = "0"
        /\ s[p + 1] \in {"x", "X"}, LAMBDA prefixed :
    Let(DigitRun(s, IF prefixed THEN p + 2 ELSE p, radix, 0), LAMBDA run :
        IF run[1] = 0 THEN [nan |-> TRUE, val |-> 0]
        ELSE [nan |-> FALSE,
              val |-> IF signed /\ s[first] = "-" THEN 0 - run[2] ELSE run[2]])))))

(***************************************************************************)
(* Percent decoding (decodeURIComponent)                                   *)
(***************************************************************************)
\* The characters with codes 0x20 .. 0x7e, in code order (the grave accent,
\* 0x60, cannot be written in a string and is shown as <bq>).
AsciiPrintable ==
    <<" ", "!", "\"", "#", "$", "%", "&", "'", "(", ")", "*", "+", ",", "-", ".", "/",
       "0", "1", "2", "3", "4", "5", "6", "7", "8", "9", ":", ";", "<", "=", ">", "?",
       "@", "A", "B", "C", "D", "E", "F", "G", "H", "I", "J", "K", "L", "M", "N", "O",
       "P", "Q", "R", "S", "T", "U", "V", "W", "X", "Y", "Z", "[", "\\", "]", "^", "_",
       "<bq>", "a", "b", "c", "d", "e", "f", "g", "h", "i", "j", "k", "l", "m", "n", "o",
       "p", "q", "r", "s", "t", "u", "v", "w", "x", "y", "z", "{", "|", "}", "~" >>

\* The character of an escaped byte code. Codes outside the printable range
\* that are no white space have no one-character string here and are shown
\* as a placeholder; the inputs of this model do not escape them.
CharOfCode(code) ==
    IF code >= 32 /\ code <= 126 THEN AsciiPrintable[code - 31]
    ELSE IF code = 9 THEN "\t"
    ELSE IF code = 10 THEN "\n"
    ELSE IF code = 12 THEN "\f"
    ELSE IF code = 13 THEN "\r"
    ELSE "<ctl>"

RECURSIVE DecodeFrom(_, _)
\* Decodes s from 1-based position k on. A % that is not followed by two hex
\* digits raises URIError, and so does the escape of a byte >= 0x80 that does
\* not start a well-formed UTF-8 sequence (only lone such bytes are modelled).
DecodeFrom(s, k) ==
    IF k > Len(s) THEN [ok |-> TRUE, val |-> <<>>]
    ELSE IF s[k] # "%"
    THEN Let(DecodeFrom(s, k + 1), LAMBDA r :
             IF r.ok THEN [ok |-> TRUE, val |-> <<s[k]>> \o r.val] ELSE r)
    ELSE IF k + 2 > Len(s) THEN [ok |-> FALSE, val |-> <<>>]
    ELSE Let(DigitVal(s[k + 1], 16), LAMBDA hi :
         Let(DigitVal(s[k + 2], 16), LAMBDA lo :
             IF hi = -1 \/ lo = -1 \/ 16 * hi + lo >= 128
             THEN [ok |-> FALSE, val |-> <<>>]
             ELSE Let(DecodeFrom(s, k + 3), LAMBDA r :
                      IF r.ok
                      THEN [ok |-> TRUE, val |-> <<CharOfCode(16 * hi + lo)>> \o r.val]
                      ELSE r)))

decodeURIComponent(s) == DecodeFrom(s, 1)

(***************************************************************************)
(* Request parser (http/request-parser.js)                                 *)
(***************************************************************************)
\* throw new HttpParseError(message, statusCode)
HttpParseError(message, statusCode) ==
    [kind |-> "error", http |-> TRUE, statusCode |-> statusCode, message |-> message]

\* Any other exception that escapes parseRequest (URIError).
OtherError(message) ==
    [kind |-> "error", http |-> FALSE, statusCode |-> 500, message |-> message]

\* return null
Incomplete == [kind |-> "incomplete"]

\* The while loop of decodeChunkedBody revisits an offset: it never ends.
Diverges == [kind |-> "diverges"]

RECURSIVE QueryPairs(_, _)
\* The loop of parseQueryString over the pairs, from pair k on, on top of the
\* mapping acc (a later pair overwrites an earlier one with the same key).
QueryPairs(pairs, acc) ==
    IF pairs = <<>> THEN [ok |-> TRUE, val |-> acc]
    ELSE Let(Head(pairs), LAMBDA pair :
         Let(IndexOf(pair, <<"=">>, 0), LAMBDA eqIndex :
         Let(decodeURIComponent(IF eqIndex = -1 THEN pair
                                ELSE Slice(pair, 0, eqIndex)), LAMBDA key :
         Let(IF eqIndex = -1 THEN [ok |-> TRUE, val |-> <<>>]
             ELSE decodeURIComponent(SliceFrom(pair, eqIndex + 1)), LAMBDA value :
             IF ~key.ok \/ ~value.ok THEN [ok |-> FALSE, val |-> acc]
             ELSE QueryPairs(Tail(pairs),
                             [k \in DOMAIN acc \cup {key.val} |->
                                 IF k = key.val THEN value.val ELSE acc[k]])))))

\* parseQueryString(qs): [ok |-> FALSE] when decodeURIComponent raises.
parseQueryString(qs) ==
    IF qs = <<>> THEN [ok |-> TRUE, val |-> <<>>]
    ELSE QueryPairs(Split(qs, <<"&">>), <<>>)

\* parseRequestLine(line)
parseRequestLine(line) ==
    Let(Split(line, <<" ">>), LAMBDA parts :
        IF Len(parts) # 3 THEN HttpParseError("Malformed request line", 400)
        ELSE
    Let(parts[1], LAMBDA method :
    Let(parts[2], LAMBDA rawUrl :
    Let(parts[3], LAMBDA httpVersion :
    Let(IndexOf(rawUrl, <<"?">>, 0), LAMBDA questionIndex :
    Let(IF questionIndex # -1 THEN Slice(rawUrl, 0, questionIndex) ELSE rawUrl,
        LAMBDA path :
    Let(IF questionIndex # -1 THEN SliceFrom(rawUrl, questionIndex + 1) ELSE <<>>,
        LAMBDA queryString :
    Let(parseQueryString(queryString), LAMBDA query :
        IF method \notin HTTP_METHODS \cup ObjectPrototypeKeys
        THEN HttpParseError("Unsupported HTTP method", 400)
        ELSE IF ~StartsWith(httpVersion, <<"H", "T", "T", "P", "/">>)
        THEN HttpParseError("Malformed HTTP version", 400)
        ELSE IF ~query.ok THEN OtherError("URI malformed")
        ELSE [kind |-> "ok", method |-> method, url |-> rawUrl,
              path |-> path, query |-> query.val,
              httpVersion |-> httpVersion]))))))))

RECURSIVE HeaderLines(_, _)
\* The loop of parseHeaders: headers[name] = value, the last line of a name wins.
HeaderLines(headerLines, headers) ==
    IF headerLines = <<>> THEN [kind |-> "ok", headers |-> headers]
    ELSE Let(Head(headerLines), LAMBDA line :
         Let(IndexOf(line, <<":">>, 0), LAMBDA colonIndex :
             IF colonIndex = -1 THEN HttpParseError("Malformed header line", 400)
             ELSE
         Let(ToLowerCase(Trim(Slice(line, 0, colonIndex))), LAMBDA name :
         Let(Trim(SliceFrom(line, colonIndex + 1)), LAMBDA value :
             HeaderLines(Tail(headerLines),
                         [n \in DOMAIN headers \cup {name} |->
                             IF n = name THEN value ELSE headers[n]])))))

\* parseHeaders(headerLines)
parseHeaders(headerLines) == HeaderLines(headerLines, <<>>)

H_TRANSFER_ENCODING ==
    <<"t", "r", "a", "n", "s", "f", "e", "r", "-", "e", "n", "c", "o", "d", "i", "n", "g">>

H_CONTENT_LENGTH ==
    <<"c", "o", "n", "t", "e", "n", "t", "-", "l", "e", "n", "g", "t", "h">>

H_CONNECTION == <<"c", "o", "n", "n", "e", "c", "t", "i", "o", "n">>

V_CHUNKED == <<"c", "h", "u", "n", "k", "e", "d">>

\* headers[name] || ''
HeaderOrEmpty(headers, name) ==
    IF name \in DOMAIN headers THEN headers[name] ELSE <<>>

ChunkTerminator == <<"0", "\r", "\n", "\r", "\n">>

\* The same in radix 10.
ChunkSize_Decimal(sizeHex) == ParseInt(sizeHex, 10)

\* parseInt(sizeHex, 16)
ChunkSize(sizeHex) == ParseInt(sizeHex, 16)

RECURSIVE DecodeLoop(_, _, _, _)
\* The while loop of decodeChunkedBody at the given offset, with the chunks
\* collected so far (already concatenated). The control flow of an iteration
\* depends on the offset alone, so an offset in `visited` means the loop
\* never ends.
DecodeLoop(raw, offset, chunks, visited) ==
    IF ~(offset < Len(raw)) THEN [kind |-> "ok", body |-> chunks]
    ELSE IF offset \in visited THEN Diverges
    ELSE Let(IndexOf(raw, CRLF, offset), LAMBDA lineEnd :
             IF lineEnd = -1 THEN [kind |-> "ok", body |-> chunks]
             ELSE
         Let(Trim(Slice(raw, offset, lineEnd)), LAMBDA sizeHex :
         Let(ChunkSize(sizeHex), LAMBDA chunkSize :
             IF chunkSize.nan THEN HttpParseError("Invalid chunk size", 400)
             ELSE IF chunkSize.val = 0 THEN [kind |-> "ok", body |-> chunks]
             ELSE
         Let(lineEnd + 2, LAMBDA dataStart :
         Let(dataStart + chunkSize.val, LAMBDA dataEnd :
             IF dataEnd > Len(raw)
             THEN HttpParseError("Incomplete chunk data", 400)
             ELSE DecodeLoop(raw, dataEnd + 2,
                             chunks \o Slice(raw, dataStart, dataEnd),
                             visited \cup {offset}))))))

\* decodeChunkedBody(raw)
decodeChunkedBody(raw) == DecodeLoop(raw, 0, <<>>, {})

\* The same with the completeness check before the cap.
LengthBody_CompletenessFirst(buffer, bodyStart, contentLength) ==
    IF ~(contentLength > 0) THEN [kind |-> "ok", body |-> <<>>]
    ELSE IF Len(buffer) < bodyStart + contentLength THEN Incomplete
    ELSE IF contentLength > MAX_BODY_SIZE
    THEN HttpParseError("Payload too large", 413)
    ELSE [kind |-> "ok", body |-> Slice(buffer, bodyStart, bodyStart + contentLength)]

\* The `else if (contentLength > 0)` branch of parseRequest: the body of a
\* request that is not chunked, a thrown error, or Incomplete.
LengthBody(buffer, bodyStart, contentLength) ==
    IF ~(contentLength > 0) THEN [kind |-> "ok", body |-> <<>>]
    ELSE IF contentLength > MAX_BODY_SIZE
    THEN HttpParseError("Payload too large", 413)
    ELSE IF Len(buffer) < bodyStart + contentLength THEN Incomplete
    ELSE [kind |-> "ok", body |-> Slice(buffer, bodyStart, bodyStart + contentLength)]

\* parseRequest(buffer): Incomplete (null), a thrown error, a loop that never
\* ends, or [kind |-> "parsed", ...] with the request record's fields.
parseRequest(buffer) ==
    Let(CRLF \o CRLF, LAMBDA headerEndMarker :
    Let(IndexOf(buffer, headerEndMarker, 0), LAMBDA headerEndIndex :
        IF headerEndIndex = -1 THEN Incomplete
        ELSE IF headerEndIndex > MAX_HEADER_SIZE
        THEN HttpParseError("Headers too large", 413)
        ELSE
    Let(Split(Slice(buffer, 0, headerEndIndex), CRLF), LAMBDA lines :
    Let(parseRequestLine(lines[1]), LAMBDA rl :
        IF rl.kind = "error" THEN rl
        ELSE
    Let(parseHeaders(Tail(lines)), LAMBDA hs :
        IF hs.kind = "error" THEN hs
        ELSE
    Let(hs.headers, LAMBDA headers :
    Let(headerEndIndex + Len(headerEndMarker), LAMBDA bodyStart :
    Let(ToLowerCase(HeaderOrEmpty(headers, H_TRANSFER_ENCODING)) = V_CHUNKED,
        LAMBDA isChunked :
    Let(ParseInt(HeaderOrEmpty(headers, H_CONTENT_LENGTH), 10), LAMBDA parsedLength :
    \* parseInt(headers['content-length'], 10) || 0
    Let(IF H_CONTENT_LENGTH \notin DOMAIN headers \/ parsedLength.nan
        THEN 0 ELSE parsedLength.val, LAMBDA contentLength :
    Let(SliceFrom(buffer, bodyStart), LAMBDA rawBody :
    Let(IndexOf(rawBody, ChunkTerminator, 0), LAMBDA terminatorIndex :
        IF isChunked /\ terminatorIndex = -1 THEN Incomplete
        ELSE
    Let(IF isChunked THEN decodeChunkedBody(rawBody)
        ELSE LengthBody(buffer, bodyStart, contentLength), LAMBDA decoded :
        IF decoded.kind # "ok" THEN decoded
        ELSE [kind |-> "parsed", method |-> rl.method, url |-> rl.url,
              path |-> rl.path, query |-> rl.query,
              httpVersion |-> rl.httpVersion, headers |-> headers,
              body |-> decoded.body,
              totalLength |-> IF isChunked THEN bodyStart + terminatorIndex + 5
                              ELSE bodyStart + contentLength])))))))))))))

(***************************************************************************)
(* Router (router/route.js, router/router.js)                              *)
(***************************************************************************)
UpperChar(c) ==
    IF \E k \in 1..26 : LowerChars[k] = c
    THEN UpperChars[CHOOSE k \in 1..26 : LowerChars[k] = c]
    ELSE c

\* s.toUpperCase()
ToUpperCase(s) == [k \in 1..Len(s) |-> UpperChar(s[k])]

\* arr.filter(Boolean) on strings: the non-empty ones, in order.
FilterNonEmpty(arr) == SelectSeq(arr, LAMBDA x : x # <<>>)

\* Route constructor: this._segments
RouteSegments(pattern) == FilterNonEmpty(Split(pattern, <<"/">>))

IsParamSegment(seg) == StartsWith(seg, <<":">>)

\* Route.isStatic: no parameter names were collected by _buildRegex.
isStatic(route) ==
    Let(RouteSegments(route.pattern), LAMBDA segs :
        \A k \in 1..Len(segs) : ~IsParamSegment(segs[k]))

\* this._regex.exec(path) for the regex ^/seg/seg...$ of _buildRegex, where a
\* static segment matches itself and a parameter segment matches [^/]+. The
\* result is the sequence of captured groups, or <<"nomatch">> wrapped as
\* [hit |-> FALSE].
RegexExec(route, path) ==
    Let(RouteSegments(route.pattern), LAMBDA segs :
    Let(Split(SliceFrom(path, 1), <<"/">>), LAMBDA parts :
    Let(/\ Len(path) >= 1
        /\ path[1] = "/"
        /\ IF segs = <<>> THEN Len(path) = 1
           ELSE /\ Len(parts) = Len(segs)
                /\ \A k \in 1..Len(segs) :
                      IF IsParamSegment(segs[k]) THEN parts[k] # <<>>
                      ELSE parts[k] = segs[k], LAMBDA hit :
        IF ~hit THEN [hit |-> FALSE, groups |-> <<>>, names |-> <<>>]
        ELSE
    Let(SelectSeq([k \in 1..Len(segs) |-> k], LAMBDA k : IsParamSegment(segs[k])),
        LAMBDA paramIdx :
        [hit |-> TRUE,
         groups |-> [i \in 1..Len(paramIdx) |-> parts[paramIdx[i]]],
         names |-> [i \in 1..Len(paramIdx) |-> SliceFrom(segs[paramIdx[i]], 1)]]))))

\* Route.match(path): [matched, params], or threw when decodeURIComponent
\* raises on a captured group.
match(route, path) ==
    Let(RegexExec(route, path), LAMBDA result :
        IF ~result.hit THEN [matched |-> FALSE, threw |-> FALSE, params |-> <<>>]
        ELSE
    Let([i \in 1..Len(result.groups) |-> decodeURIComponent(result.groups[i])],
        LAMBDA decoded :
        IF \E i \in 1..Len(decoded) : ~decoded[i].ok
        THEN [matched |-> FALSE, threw |-> TRUE, params |-> <<>>]
        ELSE [matched |-> TRUE, threw |-> FALSE,
              \* params[name] = value in index order: the last group of a name wins
              params |-> [n \in {result.names[i] : i \in 1..Len(result.names)} |->
                            decoded[CHOOSE i \in 1..Len(result.names) :
                                       /\ result.names[i] = n
                                       /\ \A j \in 1..Len(result.names) :
                                             result.names[j] = n => j <= i].val]]))

\* The same on an array: allowedMethods.push(m).
SetAdd_Push(seq, m) == Append(seq, m)

\* allowedMethods.add(m) on an insertion-ordered Set
SetAdd(seq, m) == IF \E k \in 1..Len(seq) : seq[k] = m THEN seq ELSE Append(seq, m)

RECURSIVE ResolveLoop(_, _, _, _, _)
\* The for loop of Router.resolve from route k on. acc carries matchedRoute
\* (0 for null, else the route's position), matchedParams,
\* pathMatchedButMethodDidNot and allowedMethods.
ResolveLoop(rs, k, method, path, acc) ==
    IF k > Len(rs) THEN acc
    ELSE Let(rs[k], LAMBDA route :
         Let(match(route, path), LAMBDA m :
             IF m.threw THEN [acc EXCEPT !.threw = TRUE]
             ELSE ResolveLoop(rs, k + 1, method, path,
                    IF ~m.matched THEN acc
                    ELSE IF route.method = ToUpperCase(method)
                    THEN IF acc.matchedRoute = 0
                            \/ (isStatic(route) /\ ~isStatic(rs[acc.matchedRoute]))
                         THEN [acc EXCEPT !.matchedRoute = k,
                                          !.matchedParams = m.params]
                         ELSE acc
                    ELSE [acc EXCEPT !.pathMatchedButMethodDidNot = TRUE,
                                     !.allowedMethods = SetAdd(@, route.method)])))

\* Router.resolve(method, path) over the route table rs. `route` is the
\* position of the matched route (its handler and middleware are read there).
resolve(rs, method, path) ==
    Let(ResolveLoop(rs, 1, method, path,
                    [matchedRoute |-> 0, matchedParams |-> <<>>,
                     pathMatchedButMethodDidNot |-> FALSE,
                     allowedMethods |-> <<>>, threw |-> FALSE]), LAMBDA acc :
        IF acc.threw
        THEN [status |-> 0, threw |-> TRUE, route |-> 0, params |-> <<>>,
              allowedMethods |-> <<>>]
        ELSE IF acc.matchedRoute # 0
        THEN [status |-> 200, threw |-> FALSE, route |-> acc.matchedRoute,
              params |-> acc.matchedParams,
              allowedMethods |-> SetAdd(acc.allowedMethods, rs[acc.matchedRoute].method)]
        ELSE IF acc.pathMatchedButMethodDidNot
        THEN [status |-> 405, threw |-> FALSE, route |-> 0, params |-> <<>>,
              allowedMethods |-> acc.allowedMethods]
        ELSE [status |-> 404, threw |-> FALSE, route |-> 0, params |-> <<>>,
              allowedMethods |-> <<>>])

(***************************************************************************)
(* State                                                                   *)
(***************************************************************************)
VARIABLES
    stack,          \* Pipeline._middleware, in registration order
    routes,         \* Router._routes, in registration order
    requestHandler, \* Server._requestHandler (NoHandler for null)
    client,         \* the peer of the connection (see below)
    received,       \* number of bytes delivered by 'data' events so far
    buffer,         \* the `buffer` of _handleConnection
    bufOff,         \* stream offset of buffer[0] (history variable)
    srv,            \* the objects the handlers of one connection work on
    parser,         \* a call of parseRequest on its own (see ParserSpec)
    router,         \* a call of Router.resolve on its own (see RouterSpec)
    limiter,        \* a rateLimiter() instance on its own (see LimiterSpec)
    auth            \* the auth routes in in-memory mode on their own (see AuthSpec)

vars ==
    <<stack, routes, requestHandler, client, received, buffer, bufOff, srv, parser,
      router, limiter, auth>>

(***************************************************************************)
(* client is a record:                                                     *)
(*   menu      the requests the client chooses from                        *)
(*   quota     the number of requests it sends on the connection           *)
(*   sent      the number of requests it has sent or begun to send         *)
(*   begun     the bytes it has sent of a request sent in part             *)
(*   rest      the bytes of that request that are still to come            *)
(*   last      history of the last 'data' event: the complete requests     *)
(*             and the incomplete tail that the chunk put behind the       *)
(*             bytes sent before, the number of requests dispatched        *)
(*             before the event, whether the connection buffer held just   *)
(*             the bytes of the request begun, and whether the buffer      *)
(*             has been left alone since                                   *)
(*                                                                         *)
(* srv is a record:                                                        *)
(*   sock      "open", "ended" (socket.end() was called) or "closed"       *)
(*   wire      the responses written to the socket, in order               *)
(*   lost      the writes made after the socket was ended or closed        *)
(*   reqs      the request records dispatched so far; a request is named   *)
(*             by its position r here                                      *)
(*   res       res[r] is the HttpResponse built for request r              *)
(*   closures  the live next() closures of execute, handleError and        *)
(*             runMiddlewareStack with their `index`                       *)
(*   tasks     callbacks deferred by middleware and handlers               *)
(*   calls     history: every invocation of a middleware or handler        *)
(*   ends      history: every socket.end() of the driver after a request   *)
(*   errors    history: every parse error, with the number of requests     *)
(*             dispatched and of responses on the wire right after it      *)
(*   idle      history: the idle timer has fired                           *)
(*   parses    history: the stream offset and length of every buffer       *)
(*             handed to the parser, with the number of requests           *)
(*             dispatched before                                           *)
(*   hung      the event loop is stuck in a loop that never ends           *)
(***************************************************************************)

\* undefined, as the argument of next() and as "nothing was thrown"
NoErr == "undefined"

\* req.user of a request that no authGuard let through
NoUser == "undefined"

NoHandler == [arity |-> 0]

\* The terminals of HttpResponse.
Terminals == {"send", "json", "text", "html", "sendStatus"}

(***************************************************************************)
(* authGuard (auth/auth-middleware.js)                                     *)
(***************************************************************************)
H_AUTHORIZATION == <<"a", "u", "t", "h", "o", "r", "i", "z", "a", "t", "i", "o", "n">>

BEARER == <<"B", "e", "a", "r", "e", "r", " ">>

\* The token that jwt.verify accepts with the server's secret, and the
\* payload it decodes to.
T_GOOD == <<"g", "o", "o", "d">>

\* verifyToken(token, options): jwt.verify raises for every other token, and
\* verifyToken catches it.
verifyToken(token) ==
    IF token = T_GOOD THEN [valid |-> TRUE, decoded |-> "alice"]
    ELSE [valid |-> FALSE, decoded |-> NoUser]

\* The same without the check of the scheme.
authMiddleware_AnyScheme(req) ==
    IF ~verifyToken(SliceFrom(HeaderOrEmpty(req.headers, H_AUTHORIZATION), 7)).valid
    THEN <<"json">>
    ELSE <<"user", "next">>

\* authMiddleware(req, res, next), as the statements it comes to: the 401
\* response, or req.user = result.decoded and next().
authMiddleware(req) ==
    Let(HeaderOrEmpty(req.headers, H_AUTHORIZATION), LAMBDA authHeader :
        IF ~StartsWith(authHeader, BEARER) THEN <<"json">>
        ELSE IF SliceFrom(authHeader, 7) = <<>> THEN <<"json">>
        ELSE IF ~verifyToken(SliceFrom(authHeader, 7)).valid THEN <<"json">>
        ELSE <<"user", "next">>)

(***************************************************************************)
(* A user function (middleware, error handler, route handler) is a record  *)
(*   arity    3 normal middleware, 4 error handler, 2 handler              *)
(*   onlyFor  a method: the function acts on requests of this method only  *)
(*            and calls next() on the others; <<>> for every request       *)
(*   sync     what it does before it returns, a sequence of                *)
(*            a terminal, "next" (next()), "nextErr" (next(new error)),    *)
(*            "pass" (next(err) with the error it was given), "throw"      *)
(*   async    what a callback it registers does later (same alphabet,      *)
(*            no "throw")                                                  *)
(*            <<"authGuard">> stands for the middleware of authGuard()     *)
(*   status   the status code it responds with                             *)
(*   err      the error it raises or passes to next                        *)
(***************************************************************************)
ScriptOf(fn, req) ==
    IF fn.onlyFor # <<>> /\ req.method # fn.onlyFor
    THEN [sync |-> <<"next">>, async |-> <<>>]
    ELSE IF fn.sync = <<"authGuard">>
    THEN [sync |-> authMiddleware(req), async |-> <<>>]
    ELSE [sync |-> fn.sync, async |-> fn.async]

\* err.message
MessageOf(err) == IF err = "Error()" THEN "" ELSE err

(***************************************************************************)
(* Socket and response builder (http/response.js)                          *)
(***************************************************************************)
\* socket.write(raw): nothing reaches the peer once the socket was ended.
SocketWrite(st, raw) ==
    IF st.sock = "open" THEN [st EXCEPT !.wire = Append(@, raw)]
    ELSE [st EXCEPT !.lost = Append(@, raw)]

\* socket.end()
SocketEnd(st) == IF st.sock = "open" THEN [st EXCEPT !.sock = "ended"] ELSE st

\* headers[name] = value
SetHeaderIn(headers, name, value) ==
    [n \in DOMAIN headers \cup {name} |-> IF n = name THEN value ELSE headers[n]]

\* new HttpResponse(socket); `sends` counts the calls of send on this object
\* (history).
NewResponse ==
    [statusCode |-> 200, headers |-> <<>>, headersSent |-> FALSE, sends |-> 0]

\* res.setHeader(name, value), name already in lower case
setHeader(st, r, name, value) ==
    [st EXCEPT !.res[r].headers = SetHeaderIn(@, name, value)]

\* res.status(code)
status(st, r, code) == [st EXCEPT !.res[r].statusCode = code]

\* The body of send after the latch: the automatic headers and the write.
\* The body is kept as the string it was given; "" is the empty body.
SendBody(st, r, body) ==
    Let(st.res[r].headers, LAMBDA h0 :
    Let(IF "content-length" \notin DOMAIN h0
        THEN SetHeaderIn(h0, "content-length", "byteLength(body)") ELSE h0, LAMBDA h1 :
    Let(IF "content-type" \notin DOMAIN h1 /\ body # ""
        THEN SetHeaderIn(h1, "content-type", "text/plain; charset=utf-8")
        ELSE h1, LAMBDA h2 :
    Let(IF "date" \notin DOMAIN h2 THEN SetHeaderIn(h2, "date", "now") ELSE h2,
        LAMBDA h3 :
        SocketWrite([st EXCEPT !.res[r].headersSent = TRUE, !.res[r].headers = h3],
                    [req |-> r, statusCode |-> st.res[r].statusCode,
                     headers |-> h3, body |-> body])))))

\* The same without the headers-sent latch.
send_NoLatch(st, r, body) == SendBody([st EXCEPT !.res[r].sends = @ + 1], r, body)

\* res.send(body)
send(st, r, body) ==
    IF st.res[r].headersSent THEN [st EXCEPT !.res[r].sends = @ + 1]
    ELSE SendBody([st EXCEPT !.res[r].sends = @ + 1], r, body)

\* res.json(data)
json(st, r, data) ==
    send(setHeader(st, r, "content-type", "application/json; charset=utf-8"), r, data)

\* res.text(data)
text(st, r, data) ==
    send(setHeader(st, r, "content-type", "text/plain; charset=utf-8"), r, data)

\* res.html(data)
html(st, r, data) ==
    send(setHeader(st, r, "content-type", "text/html; charset=utf-8"), r, data)

\* res.sendStatus(code): the body is the status text
sendStatus(st, r, code) ==
    send(setHeader(status(st, r, code), r, "content-type", "text/plain; charset=utf-8"),
         r, "statusText")

\* A user function calls the terminal t: res.status(fn.status).<t>(body), or
\* res.sendStatus(fn.status).
CallTerminal(st, r, fn, t) ==
    IF t = "sendStatus" THEN sendStatus(st, r, fn.status)
    ELSE IF t = "json" THEN json(status(st, r, fn.status), r, "body")
    ELSE IF t = "text" THEN text(status(st, r, fn.status), r, "body")
    ELSE IF t = "html" THEN html(status(st, r, fn.status), r, "body")
    ELSE send(status(st, r, fn.status), r, "body")

(***************************************************************************)
(* Middleware pipeline (middleware/pipeline.js) and router dispatch        *)
(* (server.js). JavaScript runs a callback to completion, so a call of     *)
(* next() inside a middleware runs the rest of the walk before the         *)
(* middleware goes on: the operators below nest the same way.              *)
(***************************************************************************)
RECURSIVE RunOps(_, _, _, _, _, _)
RECURSIVE CallNext(_, _, _)
RECURSIVE ExecuteNext(_, _, _)
RECURSIVE ExecuteWalk(_, _, _)
RECURSIVE HandleErrorNext(_, _, _)
RECURSIVE StackNext(_, _, _)

\* The same without the filter.
errorHandlers_Unfiltered == stack

\* this._middleware.filter((fn) => fn.length === 4)
errorHandlers == SelectSeq(stack, LAMBDA fn : fn.arity = 4)

\* A new closure of the given kind for request r. index is the closure's
\* `index`; err is the `err` parameter of handleError; route is the position
\* of the route whose middleware runMiddlewareStack walks.
NewClosure(kind, r, err, route) ==
    [kind |-> kind, req |-> r, index |-> 0, err |-> err, route |-> route]

\* A user function is invoked for request r with next bound to closure c
\* (0: the function gets no next) and, for an error handler, the error
\* errArg. The result is the state after the function returned or raised,
\* and what it raised. The history of calls keeps the function, the closure
\* and what the function found: res._headersSent and req.user.
Invoke(st, r, c, fn, errArg, who) ==
    Let(ScriptOf(fn, st.reqs[r]), LAMBDA script :
        RunOps([st EXCEPT
                  !.calls = Append(@, [req |-> r, who |-> who, err |-> errArg,
                                       fn |-> fn, cl |-> c,
                                       sent |-> st.res[r].headersSent,
                                       user |-> st.reqs[r].user]),
                  !.tasks = IF script.async = <<>> THEN @
                            ELSE Append(@, [req |-> r, cl |-> c, fn |-> fn,
                                            err |-> errArg, ops |-> script.async])],
               r, c, fn, errArg, script.sync))

\* The same for a next() that stands for next(err) in an error handler.
NextArgument_ErrorSticks(op, fn, errArg) ==
    IF op = "nextErr" THEN fn.err ELSE errArg

\* The argument of the call of next that the statement op of fn makes, fn
\* having been given the error errArg (none: NoErr).
NextArgument(op, fn, errArg) ==
    IF op = "next" THEN NoErr
    ELSE IF op = "nextErr" THEN fn.err
    ELSE errArg    \* "pass"

\* The statements of a user function, one after the other.
RunOps(st, r, c, fn, errArg, ops) ==
    IF ops = <<>> THEN [st |-> st, thrown |-> NoErr]
    ELSE Let(Head(ops), LAMBDA op :
             IF op = "throw" THEN [st |-> st, thrown |-> fn.err]
             ELSE RunOps(IF op \in Terminals THEN CallTerminal(st, r, fn, op)
                         ELSE IF op = "user"    \* req.user = result.decoded
                         THEN [st EXCEPT !.reqs[r].user =
                                 verifyToken(SliceFrom(HeaderOrEmpty(st.reqs[r].headers,
                                                                    H_AUTHORIZATION), 7)).decoded]
                         ELSE CallNext(st, c, NextArgument(op, fn, errArg)),
                         r, c, fn, errArg, Tail(ops)))

\* The same without the fallback for an empty message.
Default500_MessageOnly(st, r, err) == json(status(st, r, 500), r, MessageOf(err))

\* res.status(500).json({ error: err.message || 'Internal Server Error' })
Default500(st, r, err) ==
    json(status(st, r, 500), r,
         IF MessageOf(err) = "" THEN "Internal Server Error" ELSE MessageOf(err))

\* Pipeline.handleError(err, req, res)
handleError(st, r, err) ==
    HandleErrorNext([st EXCEPT !.closures = Append(@, NewClosure("handleError", r, err, 0))],
                    Len(st.closures) + 1, err)

\* next(e) of Pipeline.handleError
HandleErrorNext(st, c, e) ==
    Let(st.closures[c], LAMBDA cl :
    Let(cl.req, LAMBDA r :
        IF st.res[r].headersSent THEN st
        ELSE
    Let(IF e # NoErr THEN e ELSE cl.err, LAMBDA currentErr :
        IF cl.index >= Len(errorHandlers)
        THEN IF ~st.res[r].headersSent THEN Default500(st, r, currentErr) ELSE st
        ELSE
    Let(Invoke([st EXCEPT !.closures[c].index = @ + 1], r, c,
               errorHandlers[cl.index + 1], currentErr,
               [kind |-> "handleError", pos |-> cl.index + 1]), LAMBDA o :
        IF o.thrown # NoErr THEN HandleErrorNext(o.st, c, o.thrown)
        ELSE o.st))))

\* Server._invokeHandler(handler, req, res), the handler being the one of
\* the route at position k
_invokeHandler(st, r, k) ==
    Let(Invoke(st, r, 0, routes[k].handler, NoErr, [kind |-> "handler", pos |-> k]),
        LAMBDA o :
        IF o.thrown # NoErr THEN handleError(o.st, r, o.thrown) ELSE o.st)

\* The done callback that _dispatch hands to runMiddlewareStack (dones is the
\* history of its calls).
Done(st, c, err) ==
    Let([st EXCEPT !.dones = Append(@, [cl |-> c, err |-> err,
                                        sent |-> st.res[st.closures[c].req].headersSent,
                                        calls |-> Len(st.calls)])], LAMBDA st1 :
        IF err # NoErr THEN handleError(st1, st.closures[c].req, err)
        ELSE _invokeHandler(st1, st.closures[c].req, st.closures[c].route))

\* next(err) of runMiddlewareStack
StackNext(st, c, err) ==
    Let(st.closures[c], LAMBDA cl :
    Let(routes[cl.route].middleware, LAMBDA middlewares :
    \* what the call comes to: a call of done, or a return
    Let(IF err # NoErr THEN [st |-> st, done |-> TRUE, err |-> err]
        ELSE IF st.res[cl.req].headersSent
        THEN [st |-> st, done |-> FALSE, err |-> NoErr]
        ELSE IF cl.index >= Len(middlewares)
        THEN [st |-> st, done |-> TRUE, err |-> NoErr]
        ELSE Let(Invoke([st EXCEPT !.closures[c].index = @ + 1], cl.req, c,
                        middlewares[cl.index + 1], NoErr,
                        [kind |-> "route", pos |-> cl.index + 1]), LAMBDA o :
                 [st |-> o.st, done |-> o.thrown # NoErr, err |-> o.thrown]),
        LAMBDA end :
        IF end.done THEN Done(end.st, c, end.err) ELSE end.st)))

\* The same for a driver that goes to the handler at once.
runMiddlewareStack_Skipped(st, r, k) == _invokeHandler(st, r, k)

\* runMiddlewareStack(middlewares, req, res, done) for the route at position k
runMiddlewareStack(st, r, k) ==
    StackNext([st EXCEPT
                 !.closures = Append(@, NewClosure("runMiddlewareStack", r, NoErr, k))],
              Len(st.closures) + 1, NoErr)

\* result.allowedMethods.join(', ')
RECURSIVE Join(_)
Join(methods) ==
    IF methods = <<>> THEN <<>>
    ELSE IF Len(methods) = 1 THEN methods[1]
    ELSE methods[1] \o <<",", " ">> \o Join(Tail(methods))

\* Server._dispatch(req, res, socket); a raise of Router.resolve leaves it.
_dispatch(st, r) ==
    Let(st.reqs[r], LAMBDA req :
    Let(resolve(routes, req.method, req.path), LAMBDA result :
        IF result.threw THEN [st |-> st, thrown |-> "URI malformed"]
        ELSE IF result.status \in {404, 405}
        THEN [st |-> json(status(IF result.status = 404 THEN st
                                 ELSE setHeader(st, r, "allow",
                                                Join(result.allowedMethods)),
                                 r, result.status),
                          r, IF result.status = 404 THEN "Not Found"
                             ELSE "Method Not Allowed"),
              thrown |-> NoErr]
        ELSE
    Let([st EXCEPT !.reqs[r].params = result.params], LAMBDA st1 :
        [st |-> IF Len(routes[result.route].middleware) > 0
                THEN runMiddlewareStack(st1, r, result.route)
                ELSE _invokeHandler(st1, r, result.route),
         thrown |-> NoErr])))

\* The final handler that _processBuffer passes to execute (its invocation
\* is recorded in the history of calls).
FinalHandler(st, r) ==
    Let([st EXCEPT !.calls = Append(@, [req |-> r,
                                        who |-> [kind |-> "final", pos |-> 0],
                                        err |-> NoErr, fn |-> NoHandler, cl |-> 0,
                                        sent |-> st.res[r].headersSent,
                                        user |-> st.reqs[r].user])], LAMBDA st0 :
        IF Len(routes) > 0 THEN _dispatch(st0, r)
        ELSE IF requestHandler # NoHandler
        THEN Invoke(st0, r, 0, requestHandler, NoErr, [kind |-> "handler", pos |-> 0])
        ELSE [st |-> text(status(st0, r, 200), r, "OK"), thrown |-> NoErr])

\* The same for a pipeline that tells no error handler apart.
IsErrorHandler_Never(fn) == FALSE

\* The same without the guard on res._headersSent.
ExecuteNext_NoLatch(st, c, err) == ExecuteWalk(st, c, err)

\* const isErrorHandler = fn.length === 4
IsErrorHandler(fn) == fn.arity = 4

\* next(err) of Pipeline.execute
ExecuteNext(st, c, err) ==
    IF st.res[st.closures[c].req].headersSent THEN st
    ELSE ExecuteWalk(st, c, err)

\* The while loop of next(err) of Pipeline.execute and what follows it.
ExecuteWalk(st, c, err) ==
    Let(st.closures[c], LAMBDA cl :
    Let(cl.req, LAMBDA r :
        IF cl.index < Len(stack)
        THEN
    Let(stack[cl.index + 1], LAMBDA fn :
    Let(IsErrorHandler(fn), LAMBDA isErrorHandler :
    Let([st EXCEPT !.closures[c].index = @ + 1], LAMBDA st1 :
        IF (err # NoErr) # isErrorHandler THEN ExecuteWalk(st1, c, err)
        ELSE
    Let(Invoke(st1, r, c, fn, err,
               [kind |-> IF isErrorHandler THEN "error" ELSE "normal",
                pos |-> cl.index + 1]), LAMBDA o :
        IF o.thrown # NoErr THEN ExecuteNext(o.st, c, o.thrown) ELSE o.st))))
        ELSE
    \* the end of the stack: the error the walk carries, or the one the
    \* final handler raises, gets the default 500 (unhandled is the history of
    \* the walks that came here with an error)
    Let(IF err # NoErr
        THEN [st |-> [st EXCEPT !.unhandled = Append(@, [req |-> r, err |-> err,
                                                         sent |-> st.res[r].headersSent,
                                                         calls |-> Len(st.calls)])],
              thrown |-> err]
        ELSE FinalHandler(st, r),
        LAMBDA f :
        IF f.thrown # NoErr /\ ~f.st.res[r].headersSent
        THEN Default500(f.st, r, f.thrown)
        ELSE f.st)))

\* Pipeline.execute(req, res, finalHandler) with the driver's final handler
execute(st, r) ==
    ExecuteNext([st EXCEPT !.closures = Append(@, NewClosure("execute", r, NoErr, 0))],
                Len(st.closures) + 1, NoErr)

\* A call of the next function of closure c.
CallNext(st, c, err) ==
    IF st.closures[c].kind = "execute" THEN ExecuteNext(st, c, err)
    ELSE IF st.closures[c].kind = "handleError" THEN HandleErrorNext(st, c, err)
    ELSE StackNext(st, c, err)

(***************************************************************************)
(* Connection driver (server.js)                                           *)
(***************************************************************************)
V_HTTP11 == <<"H", "T", "T", "P", "/", "1", ".", "1">>

V_CLOSE == <<"c", "l", "o", "s", "e">>

V_KEEP_ALIVE == <<"k", "e", "e", "p", "-", "a", "l", "i", "v", "e">>

\* The same decision comparing the header value as it was sent.
KeepAlive_CaseSensitive(req) ==
    Let(HeaderOrEmpty(req.headers, H_CONNECTION), LAMBDA connectionHeader :
        IF req.httpVersion = V_HTTP11 THEN connectionHeader # V_CLOSE
        ELSE connectionHeader = V_KEEP_ALIVE)

\* The keep-alive decision of _processBuffer for a parsed request.
KeepAlive(req) ==
    Let(ToLowerCase(HeaderOrEmpty(req.headers, H_CONNECTION)), LAMBDA connectionHeader :
        IF req.httpVersion = V_HTTP11 THEN connectionHeader # V_CLOSE
        ELSE connectionHeader = V_KEEP_ALIVE)

\* Server._sendError(socket, statusCode, message): a raw write, no
\* HttpResponse object (req 0).
_sendError(st, statusCode, message) ==
    SocketWrite(st, [req |-> 0, statusCode |-> statusCode,
                     headers |-> [n \in {"content-type", "content-length", "connection"} |->
                                     IF n = "content-type"
                                     THEN "application/json; charset=utf-8"
                                     ELSE IF n = "content-length" THEN "byteLength(body)"
                                     ELSE "close"],
                     body |-> message])

\* The part of the loop body of _processBuffer after a request was parsed:
\* the response object, the connection header, the pipeline. off is the
\* stream offset of the request's first byte (history).
DispatchRequest(st, req, off, keepAlive) ==
    execute(setHeader([st EXCEPT
                         !.reqs = Append(@, [method |-> req.method, url |-> req.url,
                                             path |-> req.path, query |-> req.query,
                                             httpVersion |-> req.httpVersion,
                                             headers |-> req.headers, body |-> req.body,
                                             totalLength |-> req.totalLength,
                                             params |-> <<>>, user |-> NoUser,
                                             start |-> off,
                                             keepAlive |-> keepAlive]),
                         !.res = Append(@, NewResponse)],
                      Len(st.reqs) + 1, "connection",
                      IF keepAlive THEN "keep-alive" ELSE "close"),
            Len(st.reqs) + 1)

RECURSIVE ProcessLoop(_, _, _)
\* The while loop of _processBuffer on `remaining`, whose first byte has the
\* stream offset off. updated tells whether updateBuffer(remaining) was
\* reached; the two return statements in the loop skip it.
ProcessLoop(st, remaining, off) ==
    IF ~(Len(remaining) > 0)
    THEN [st |-> st, remaining |-> remaining, off |-> off, updated |-> TRUE]
    ELSE
    Let(parseRequest(remaining), LAMBDA req :
    Let([st EXCEPT !.parses = Append(@, [off |-> off, len |-> Len(remaining),
                                        nreq |-> Len(st.reqs)])], LAMBDA stp :
        IF req.kind = "diverges"
        THEN [st |-> [stp EXCEPT !.hung = TRUE], remaining |-> remaining,
              off |-> off, updated |-> FALSE]
        ELSE IF req.kind = "error"
        THEN Let(SocketEnd(_sendError(stp,
                              IF req.http THEN req.statusCode ELSE 500,
                              IF req.http THEN req.message
                              ELSE "Internal Server Error")), LAMBDA ste :
                 [st |-> [ste EXCEPT !.errors = Append(@, [nreq |-> Len(ste.reqs),
                                                          nwire |-> Len(ste.wire)])],
                  remaining |-> remaining, off |-> off, updated |-> FALSE])
        ELSE IF req.kind = "incomplete"
        THEN [st |-> stp, remaining |-> remaining, off |-> off, updated |-> TRUE]
        ELSE
    Let(SliceFrom(remaining, req.totalLength), LAMBDA sliced :
    Let(KeepAlive(req), LAMBDA keepAlive :
    Let(DispatchRequest(stp, req, off, keepAlive), LAMBDA std :
        \* nothing was sliced off: every iteration parses the same bytes
        IF keepAlive /\ sliced = remaining
        THEN [st |-> [std EXCEPT !.hung = TRUE], remaining |-> remaining,
              off |-> off, updated |-> FALSE]
        ELSE IF ~keepAlive
        THEN [st |-> SocketEnd([std EXCEPT
                                  !.ends = Append(@, [req |-> Len(std.reqs),
                                                      sent |-> std.res[Len(std.reqs)].headersSent])]),
              remaining |-> sliced, off |-> off, updated |-> FALSE]
        ELSE ProcessLoop(std, sliced, off + (Len(remaining) - Len(sliced))))))))

\* Server._processBuffer(socket, buffer, updateBuffer), buffer[0] having the
\* stream offset off
_processBuffer(st, buf, off) == ProcessLoop(st, buf, off)

(***************************************************************************)
(* Set-up: the functions registered on the server and what a client sends  *)
(***************************************************************************)
Fn(arity, onlyFor, sync, async, code, err) ==
    [arity |-> arity, onlyFor |-> onlyFor, sync |-> sync, async |-> async,
     status |-> code, err |-> err]

\* A preflight responder in the manner of the CORS middleware: it answers
\* OPTIONS requests itself and calls next() for the others.
PreflightMw == Fn(3, M_OPTIONS, <<"send">>, <<>>, 204, "preflight")

\* A middleware that only passes on, like the logger or the security headers.
PassMw == Fn(3, <<>>, <<"next">>, <<>>, 200, "pass")

\* The error handler of the server's main block.
ErrorMw == Fn(4, <<>>, <<"json">>, <<>>, 500, "errorMw")

SyncHandler == Fn(2, <<>>, <<"json">>, <<>>, 200, "sync")

\* Responds from a callback, like the register and login handlers.
AsyncHandler == Fn(2, <<>>, <<>>, <<"json">>, 201, "async")

\* Calls several terminals, some at once and some from a callback.
EagerHandler == Fn(2, <<>>, <<"text", "sendStatus">>, <<"html", "send", "json">>, 200, "eager")

ThrowingHandler == Fn(2, <<>>, <<"throw">>, <<>>, 200, "boom")

\* A route middleware that lets the request through, as authGuard does for a
\* valid token.
GuardMw == Fn(3, <<>>, <<"next">>, <<>>, 401, "guard")

Route(method, pattern, middleware, handler) ==
    [method |-> ToUpperCase(method), pattern |-> pattern,
     middleware |-> middleware, handler |-> handler]

P_S == <<"/", "s">>
P_A == <<"/", "a">>
P_E == <<"/", "e">>
P_T == <<"/", "t">>
P_P == <<"/", "p">>

AppRoutes ==
    << Route(M_GET, P_S, <<>>, SyncHandler),
       Route(M_GET, P_A, <<>>, AsyncHandler),
       Route(M_GET, P_E, <<>>, EagerHandler),
       Route(M_GET, P_T, <<>>, ThrowingHandler),
       Route(M_POST, P_A, <<GuardMw>>, AsyncHandler),
       Route(M_POST, P_P, <<GuardMw>>, SyncHandler) >>

\* The server set-ups: routes behind global middleware, and a bare onRequest
\* handler.
Configs ==
    { [stack |-> <<PreflightMw, PassMw, ErrorMw>>, routes |-> AppRoutes,
       requestHandler |-> NoHandler],
      [stack |-> <<PassMw>>, routes |-> <<>>, requestHandler |-> AsyncHandler] }

SP == <<" ">>

V_HTTP10 == <<"H", "T", "T", "P", "/", "1", ".", "0">>

RequestLine(method, url, version) == method \o SP \o url \o SP \o version \o CRLF

HeaderLine(name, value) == name \o <<":", " ">> \o value \o CRLF

N_CONNECTION == <<"C", "o", "n", "n", "e", "c", "t", "i", "o", "n">>
N_CONTENT_LENGTH == <<"C", "o", "n", "t", "e", "n", "t", "-", "L", "e", "n", "g", "t", "h">>
N_TRANSFER_ENCODING ==
    <<"T", "r", "a", "n", "s", "f", "e", "r", "-", "E", "n", "c", "o", "d", "i", "n", "g">>

\* A request without a body.
Get(path, version, headerLines) == RequestLine(M_GET, path, version) \o headerLines \o CRLF

\* A request with a content-length body.
PostLength ==
    RequestLine(M_POST, P_A, V_HTTP11)
        \o HeaderLine(N_CONTENT_LENGTH, <<"2">>) \o CRLF \o <<"h", "i">>

\* A chunked request: one chunk with the given size line and data, then the
\* last chunk.
Chunked(size, data) ==
    RequestLine(M_POST, P_P, V_HTTP11)
        \o HeaderLine(N_TRANSFER_ENCODING, <<"c", "h", "u", "n", "k", "e", "d">>) \o CRLF
        \o size \o CRLF \o data \o CRLF \o ChunkTerminator

\* A chunk whose five data bytes are 0 CR LF CR LF.
ChunkedEmbedded == Chunked(<<"5">>, ChunkTerminator)

\* No request line; the bytes after the blank line are cut off from it when
\* the client's write is split.
Garbage == <<"X">> \o CRLF \o CRLF \o <<"Y", "Y", "Y", "Y", "Y">>

\* What a client may send as one request.
Pieces ==
    { PostLength,
      Get(P_A, V_HTTP10, <<>>),
      Get(P_T, V_HTTP11, HeaderLine(N_CONNECTION, <<"C", "l", "o", "s", "e">>)),
      Get(P_E, V_HTTP10, HeaderLine(N_CONNECTION, <<"K", "e", "e", "p", "-", "A", "l", "i", "v", "e">>)),
      ChunkedEmbedded,
      Garbage }

\* The number of requests a client sends on one connection.
MaxPieces == 2

\* The sequences of at most n requests of the set.
Streams(set, n) == UNION {[1..m -> set] : m \in 0..n}

RECURSIVE Concat(_)
Concat(seqs) == IF seqs = <<>> THEN <<>> ELSE Head(seqs) \o Concat(Tail(seqs))

(***************************************************************************)
(* Initial state: the server is listening and one connection was accepted  *)
(***************************************************************************)
InitSrv ==
    [sock |-> "open", wire |-> <<>>, lost |-> <<>>, reqs |-> <<>>, res |-> <<>>,
     closures |-> <<>>, tasks |-> <<>>, calls |-> <<>>, ends |-> <<>>,
     errors |-> <<>>, idle |-> FALSE, parses |-> <<>>, hung |-> FALSE,
     unhandled |-> <<>>, dones |-> <<>>]

InitClient(menu, quota) ==
    [menu |-> menu, quota |-> quota, sent |-> 0, begun |-> <<>>, rest |-> <<>>,
     last |-> [complete |-> <<>>, tail |-> <<>>, before |-> 0, clean |-> FALSE,
               fresh |-> FALSE]]

\* ParserSpec alone uses `parser`.
NoParser == [step |-> "none"]

\* RouterSpec alone uses `router`.
NoRouter == [step |-> "none"]

\* LimiterSpec alone uses `limiter`.
NoLimiter == [now |-> 0]

\* AuthSpec alone uses `auth`.
NoAuth == [now |-> 0]

Init ==
    /\ \E cfg \in Configs :
          /\ stack = cfg.stack
          /\ routes = cfg.routes
          /\ requestHandler = cfg.requestHandler
    /\ client = InitClient(Pieces, MaxPieces)
    /\ parser = NoParser
    /\ router = NoRouter
    /\ limiter = NoLimiter
    /\ auth = NoAuth
    /\ received = 0
    /\ buffer = <<>>
    /\ bufOff = 0
    /\ srv = InitSrv

(***************************************************************************)
(* Actions                                                                 *)
(***************************************************************************)
\* socket.on('data'): the next bytes of the client arrive as one chunk: what
\* is left of a request sent in part, then the requests ps, of which the last
\* is cut in the middle when `half` (a request is cut at most once).
Data(ps, half) ==
    /\ srv.sock # "closed"
    /\ ~srv.hung
    /\ half => ps # <<>>
    /\ \E whole \in {IF half THEN SubSeq(ps, 1, Len(ps) - 1) ELSE ps},
          last \in {IF half THEN ps[Len(ps)] ELSE <<>>} :
       \E tail \in {SubSeq(last, 1, Len(last) \div 2)} :
       \E chunk \in {client.rest \o Concat(whole) \o tail} :
       \E out \in {_processBuffer(srv, buffer \o chunk, bufOff)} :
          /\ chunk # <<>>
          /\ client' = [client EXCEPT
                          !.sent = @ + Len(ps),
                          !.begun = tail,
                          !.rest = SubSeq(last, Len(tail) + 1, Len(last)),
                          !.last = [complete |-> (IF client.rest # <<>>
                                                  THEN <<client.begun \o client.rest>>
                                                  ELSE <<>>) \o whole,
                                    tail |-> tail,
                                    before |-> Len(srv.reqs),
                                    clean |-> buffer = client.begun,
                                    fresh |-> TRUE]]
          /\ received' = received + Len(chunk)
          /\ srv' = out.st
          /\ buffer' = IF out.updated THEN out.remaining ELSE buffer \o chunk
          /\ bufOff' = IF out.updated THEN out.off ELSE bufOff
          /\ UNCHANGED <<stack, routes, requestHandler, parser, router, limiter, auth>>

\* A callback that a middleware or handler registered runs.
Callback(i) ==
    /\ ~srv.hung
    /\ i \in 1..Len(srv.tasks)
    /\ \E t \in {srv.tasks[i]} :
          srv' = RunOps([srv EXCEPT !.tasks = SubSeq(@, 1, i - 1)
                                                 \o SubSeq(@, i + 1, Len(@))],
                        t.req, t.cl, t.fn, t.err, t.ops).st
    /\ UNCHANGED <<stack, routes, requestHandler, client, received, buffer,
                   bufOff, parser, router, limiter, auth>>

\* socket.setTimeout(30000, ...): the idle timer fires.
IdleTimeout ==
    /\ ~srv.hung
    /\ srv.sock = "open"
    /\ srv' = [SocketEnd(srv) EXCEPT !.idle = TRUE]
    /\ UNCHANGED <<stack, routes, requestHandler, client, received, buffer,
                   bufOff, parser, router, limiter, auth>>

\* socket.on('close'): the connection is gone (the peer closed it, or the
\* socket was destroyed after an error).
Close ==
    /\ ~srv.hung
    /\ srv.sock # "closed"
    /\ srv' = [srv EXCEPT !.sock = "closed"]
    /\ buffer' = <<>>
    /\ bufOff' = received
    /\ client' = [client EXCEPT !.begun = <<>>, !.rest = <<>>, !.last.fresh = FALSE]
    /\ UNCHANGED <<stack, routes, requestHandler, received, parser, router,
                   limiter, auth>>

Next ==
    \/ \E ps \in Streams(client.menu, client.quota - client.sent), half \in BOOLEAN :
          Data(ps, half)
    \/ \E i \in 1..Len(srv.tasks) : Callback(i)
    \/ IdleTimeout
    \/ Close

Spec == Init /\ [][Next]_vars

(***************************************************************************)
(* A connection that carries a single request, of any of the forms below,  *)
(* to a server whose middleware and handlers respond in every combination. *)
(***************************************************************************)
\* Responds, calls next() all the same, and responds again from a callback.
SendThenNextMw == Fn(3, <<>>, <<"text", "next">>, <<"html">>, 202, "sendThenNext")

\* Raises, and responds from a callback it had registered before.
LateMw == Fn(3, <<>>, <<"throw">>, <<"send">>, 200, "late")

\* An error handler that passes the error on.
PassingErrorMw == Fn(4, <<>>, <<"pass">>, <<>>, 500, "passing")

\* Calls next() and raises once the rest of the walk has returned, as a
\* middleware does that fails in the work it left for after next().
NextThenThrowMw == Fn(3, <<>>, <<"next", "throw">>, <<>>, 200, "afterNext")

\* Responds to a POST request and raises.
SendThenThrowMw == Fn(3, M_POST, <<"send", "throw">>, <<>>, 200, "afterSend")

\* Reports an error for a GET request: next(new Error('denied')).
NextErrMw == Fn(3, M_GET, <<"nextErr">>, <<>>, 200, "denied")

\* Reports an error without a message for a POST request: next(new Error()).
EmptyErrMw == Fn(3, M_POST, <<"nextErr">>, <<>>, 200, "Error()")

\* Raises for an OPTIONS request.
MsgThrowMw == Fn(3, M_OPTIONS, <<"throw">>, <<>>, 200, "bad")

\* An error handler that recovers: it calls next() without an argument.
ClearingErrorMw == Fn(4, <<>>, <<"next">>, <<>>, 500, "clearing")

\* authGuard()
AuthGuardMw == Fn(3, <<>>, <<"authGuard">>, <<>>, 401, "authGuard")

P_G == <<"/", "g">>
P_R == <<"/", "r">>
P_N == <<"/", "n">>

\* Routes behind route middleware: the guard, a middleware that reports an
\* error, and one that fails after next().
GuardedRoutes ==
    << Route(M_GET, P_G, <<GuardMw, AuthGuardMw>>, SyncHandler),
       Route(M_GET, P_R, <<GuardMw, NextErrMw, GuardMw>>, SyncHandler),
       Route(M_GET, P_N, <<NextThenThrowMw>>, AsyncHandler),
       Route(M_GET, P_T, <<>>, ThrowingHandler) >>

\* Calls next() twice.
TwiceMw == Fn(3, <<>>, <<"next", "next">>, <<>>, 200, "twice")

\* Calls next() from a callback, as a middleware does that waits for a
\* lookup before it lets the request through.
AsyncPassMw == Fn(3, <<>>, <<>>, <<"next">>, 200, "asyncPass")

RequestConfigs ==
    Configs \cup
    { [stack |-> <<PassMw, SendThenNextMw, ErrorMw>>, routes |-> AppRoutes,
       requestHandler |-> NoHandler],
      [stack |-> <<LateMw, PassingErrorMw, ErrorMw>>, routes |-> AppRoutes,
       requestHandler |-> NoHandler],
      [stack |-> <<PassMw>>, routes |-> <<>>, requestHandler |-> NoHandler],
      [stack |-> <<PassMw, ErrorMw, AsyncPassMw, PassMw>>, routes |-> AppRoutes,
       requestHandler |-> NoHandler],
      [stack |-> <<NextThenThrowMw, PassMw, ErrorMw, PassingErrorMw>>,
       routes |-> AppRoutes, requestHandler |-> NoHandler],
      [stack |-> <<SendThenThrowMw, NextErrMw, ClearingErrorMw, PassMw, ErrorMw>>,
       routes |-> AppRoutes, requestHandler |-> NoHandler],
      [stack |-> <<EmptyErrMw, MsgThrowMw, PassingErrorMw, PassMw, PassingErrorMw>>,
       routes |-> AppRoutes, requestHandler |-> NoHandler],
      [stack |-> <<PassMw, ErrorMw>>, routes |-> <<>>,
       requestHandler |-> ThrowingHandler],
      [stack |-> <<PassMw, ErrorMw, PassMw>>, routes |-> GuardedRoutes,
       requestHandler |-> NoHandler],
      [stack |-> <<TwiceMw, ErrorMw>>, routes |-> AppRoutes,
       requestHandler |-> NoHandler] }

\* The values of the Connection header a client sends; <<>> for no header.
ConnectionValues ==
    { <<>>,
      <<"c", "l", "o", "s", "e">>,
      <<"C", "l", "o", "s", "e">>,
      <<"k", "e", "e", "p", "-", "a", "l", "i", "v", "e">>,
      <<"K", "e", "e", "p", "-", "A", "l", "i", "v", "e">>,
      <<"u", "p", "g", "r", "a", "d", "e">> }

ConnectionLine(value) == IF value = <<>> THEN <<>> ELSE HeaderLine(N_CONNECTION, value)

N_AUTHORIZATION == <<"A", "u", "t", "h", "o", "r", "i", "z", "a", "t", "i", "o", "n">>

\* The values of the Authorization header a client sends; <<>> for no header.
AuthorizationValues ==
    { <<>>,
      BEARER \o T_GOOD,
      BEARER \o <<"b", "a", "d">>,
      BEARER,
      <<"b", "e", "a", "r", "e", "r", " ">> \o T_GOOD,
      <<"B", "a", "s", "i", "c", " ">> \o T_GOOD,
      T_GOOD }

AuthorizationLine(value) ==
    IF value = <<>> THEN <<>> ELSE HeaderLine(N_AUTHORIZATION, value)

Variants ==
    { Get(path, version, ConnectionLine(value)) :
        path \in {P_E, P_A, P_T}, version \in {V_HTTP11, V_HTTP10},
        value \in ConnectionValues }
    \cup { Get(P_G, V_HTTP11, AuthorizationLine(value)) : value \in AuthorizationValues }
    \cup { Get(P_R, V_HTTP11, <<>>), Get(P_N, V_HTTP11, <<>>) }
    \cup { RequestLine(M_OPTIONS, P_S, V_HTTP11) \o CRLF,
           RequestLine(M_POST, P_S, V_HTTP11) \o CRLF,
           RequestLine(M_GET, <<"/", "n", "o">>, V_HTTP10) \o CRLF,
           PostLength, ChunkedEmbedded, Garbage }

RequestInit ==
    /\ \E cfg \in RequestConfigs :
          /\ stack = cfg.stack
          /\ routes = cfg.routes
          /\ requestHandler = cfg.requestHandler
    /\ client = InitClient(Variants, 1)
    /\ parser = NoParser
    /\ router = NoRouter
    /\ limiter = NoLimiter
    /\ auth = NoAuth
    /\ received = 0
    /\ buffer = <<>>
    /\ bufOff = 0
    /\ srv = InitSrv

RequestSpec == RequestInit /\ [][Next]_vars


(***************************************************************************)
(* The parser on its own: parseRequest is called on a well-formed request, *)
(* on the request twice over and then on what the first result leaves, and *)
(* on the proper prefixes of the request, as the unit tests do.            *)
(*                                                                         *)
(* parser is a record: b the request, step the call made last, input the   *)
(* buffer of that call, out its result, first the result of the call       *)
(* before when the call parsed a tail.                                     *)
(***************************************************************************)

\* A header line that brings the header section of Get(P_S, V_HTTP11, ...)
\* to n bytes before the blank line.
Padding(n) ==
    LET name == <<"X", "-", "P", "a", "d">>
        used == Len(RequestLine(M_GET, P_S, V_HTTP11)) - Len(CRLF)
                    + Len(CRLF) + Len(name) + 2
    IN  HeaderLine(name, [i \in 1..(n - used) |-> "a"])

\* The largest header section the parser accepts.
LongHeaders == Get(P_S, V_HTTP11, Padding(MAX_HEADER_SIZE))

\* Sixteen bytes of chunk data that start with CR LF, behind the size line
\* `10`.
ChunkedSixteen ==
    Chunked(<<"1", "0">>, CRLF \o [i \in 1..14 |-> "b"])

\* Two chunks.
ChunkedTwo ==
    RequestLine(M_POST, P_P, V_HTTP11)
        \o HeaderLine(N_TRANSFER_ENCODING, <<"C", "h", "u", "n", "k", "e", "d">>) \o CRLF
        \o <<"2">> \o CRLF \o <<"h", "i">> \o CRLF
        \o <<"a">> \o CRLF \o [i \in 1..10 |-> "c"] \o CRLF
        \o ChunkTerminator

\* Well-formed requests of every body framing.
WellFormed ==
    { Get(P_S, V_HTTP11, <<>>),
      Get(P_E, V_HTTP10, HeaderLine(N_CONNECTION, <<"c", "l", "o", "s", "e">>)),
      RequestLine(M_POST, P_A, V_HTTP11)
          \o HeaderLine(N_CONTENT_LENGTH, <<"0">>) \o CRLF,
      PostLength,
      RequestLine(M_PUT, P_P, V_HTTP11)
          \o HeaderLine(N_CONTENT_LENGTH, <<"1", "2">>) \o CRLF
          \o <<"0", "\r", "\n", "\r", "\n", "G", "E", "T", " ", "/", "\r", "\n">>,
      Chunked(<<"5">>, <<"h", "e", "l", "l", "o">>),
      ChunkedTwo,
      ChunkedEmbedded,
      ChunkedSixteen,
      LongHeaders }

\* POST /a with the given content-length header value and body bytes.
PostWith(lengthValue, body) ==
    RequestLine(M_POST, P_A, V_HTTP11)
        \o HeaderLine(N_CONTENT_LENGTH, lengthValue) \o CRLF \o body

\* One byte more than MAX_BODY_SIZE, and MAX_BODY_SIZE itself, in decimal.
OverCap == <<"1", "0", "4", "8", "5", "7", "7">>

AtCap == <<"1", "0", "4", "8", "5", "7", "6">>

\* Requests whose content-length header is over the body cap, at the cap, or
\* not a positive integer.
OddLengths ==
    { PostWith(OverCap, <<>>),
      PostWith(OverCap, <<"h", "i">>),
      PostWith(AtCap, <<"h", "i">>),
      PostWith(<<"-", "5">>, <<>>),
      PostWith(<<"-", "4", "1">>, <<>>),
      PostWith(<<"a", "b", "c">>, <<>>),
      PostWith(<<>>, <<>>),
      PostWith(<<"2", "x">>, <<"h", "i">>) }

\* Request lines whose first token is no method of HTTP_METHODS.
OddMethods ==
    { RequestLine(method, P_S, V_HTTP11) \o CRLF :
        method \in { <<"g", "e", "t">>, <<"F", "E", "T", "C", "H">>,
                     <<"c", "o", "n", "s", "t", "r", "u", "c", "t", "o", "r">> } }

\* Chunked requests with one chunk before the last one, each as the request,
\* its chunk-size line and its chunk data: size lines that are no hexadecimal
\* number, and a declared size beyond the bytes that follow.
OddChunks ==
    { <<Chunked(c[1], c[2]), c[1], c[2]>> :
        c \in { <<<<"1", "g">>, <<"h">>>>,
                <<<<"z", "z">>, <<"h">>>>,
                <<<<>>, <<"h">>>>,
                <<<<"f", "f">>, <<"h", "i">>>> } }

\* The buffers the parser is tried on.
ParserInputs ==
    WellFormed \cup OddLengths \cup OddMethods \cup { c[1] : c \in OddChunks }

\* The lengths of the proper prefixes tried: all of them, but for a request
\* longer than the header cap those from just below the cap.
PrefixLengths(b) ==
    IF Len(b) <= MAX_HEADER_SIZE THEN 0..(Len(b) - 1)
    ELSE {0} \cup ((MAX_HEADER_SIZE - 1)..(Len(b) - 1))

ParserInit ==
    /\ stack = <<>>
    /\ routes = <<>>
    /\ requestHandler = NoHandler
    /\ client = InitClient({}, 0)
    /\ received = 0
    /\ buffer = <<>>
    /\ bufOff = 0
    /\ srv = InitSrv
    /\ router = NoRouter
    /\ limiter = NoLimiter
    /\ auth = NoAuth
    /\ \E b \in ParserInputs :
          parser = [b |-> b, step |-> "start", input |-> <<>>, out |-> Incomplete,
                    first |-> Incomplete]

Parsed(step, input, first) ==
    /\ parser.step # "none"
    /\ parser' = [parser EXCEPT !.step = step, !.input = input,
                                !.out = parseRequest(input), !.first = first]
    /\ UNCHANGED <<stack, routes, requestHandler, client, received, buffer,
                   bufOff, srv, router, limiter, auth>>

\* parseRequest(B)
ParseWhole == Parsed("whole", parser.b, Incomplete)

\* parseRequest(B ++ B)
ParseDoubled == Parsed("doubled", parser.b \o parser.b, Incomplete)

\* parseRequest(raw.slice(parsed._totalLength)) after parseRequest(B ++ B)
ParseTail ==
    /\ parser.step = "doubled"
    /\ parser.out.kind = "parsed"
    /\ Parsed("tail", SliceFrom(parser.input, parser.out.totalLength), parser.out)

\* parseRequest(P) for the proper prefix P of B of n bytes
ParsePrefix(n) ==
    /\ n \in PrefixLengths(parser.b)
    /\ Parsed("prefix", SubSeq(parser.b, 1, n), Incomplete)

ParserNext ==
    \/ ParseWhole
    \/ ParseDoubled
    \/ ParseTail
    \/ \E n \in 0..(Len(parser.b) - 1) : ParsePrefix(n)

ParserSpec == ParserInit /\ [][ParserNext]_vars

(***************************************************************************)
(* The router on its own: routes are registered in any order, then         *)
(* Router.resolve is called on the table, as the unit tests do, or one     *)
(* request is sent to the server that has the table.                       *)
(*                                                                         *)
(* router is a record: step the call made last, method and path its        *)
(* arguments, out its result.                                              *)
(***************************************************************************)

\* The routes an application may register: a static pattern, and dynamic
\* patterns that capture the second, the first, and both segments.
RouteOptions ==
    { [method |-> M_GET, pattern |-> <<"/", "%", "/", "m", "e">>, middleware |-> <<>>],
      [method |-> M_GET, pattern |-> <<"/", "%", "/", ":", "i", "d">>, middleware |-> <<>>],
      [method |-> M_GET, pattern |-> <<"/", ":", "a", "/", "m", "e">>, middleware |-> <<>>],
      [method |-> M_GET, pattern |-> <<"/", ":", "a", "/", ":", "b">>, middleware |-> <<>>],
      [method |-> <<"p", "o", "s", "t">>, pattern |-> <<"/", "%", "/", "m", "e">>,
       middleware |-> <<GuardMw>>],
      [method |-> <<"p", "o", "s", "t">>, pattern |-> <<"/", ":", "a", "/", "m", "e">>,
       middleware |-> <<GuardMw>>] }

\* The number of routes an application registers.
MaxRoutes == 3

\* The paths resolve is called with.
ResolvePaths ==
    { <<"/", "%", "/", "m", "e">>, <<"/", "u", "/", "m", "e">>,
      <<"/", "%", "/", "7">>, <<"/", "x">> }

\* The methods resolve is called with.
ResolveMethods == {M_GET, M_POST, M_DELETE, <<"g", "e", "t">>}

\* The requests sent to the server that has the table.
RouterRequests ==
    { RequestLine(M_DELETE, <<"/", "%", "/", "m", "e">>, V_HTTP11) \o CRLF,
      RequestLine(M_GET, <<"/", "%", "/", "m", "e">>, V_HTTP11) \o CRLF,
      RequestLine(M_POST, <<"/", "u", "/", "m", "e">>, V_HTTP11) \o CRLF }

RouterInit ==
    /\ stack = <<PassMw, ErrorMw>>
    /\ routes = <<>>
    /\ requestHandler = NoHandler
    /\ client = InitClient(RouterRequests, 1)
    /\ parser = NoParser
    /\ router = [step |-> "start", method |-> <<>>, path |-> <<>>,
                 out |-> resolve(<<>>, <<>>, <<>>)]
    /\ limiter = NoLimiter
    /\ auth = NoAuth
    /\ received = 0
    /\ buffer = <<>>
    /\ bufOff = 0
    /\ srv = InitSrv

\* Router.add(method, pattern, middleware, handler), before the server
\* listens.
add(method, pattern, middleware, handler) ==
    /\ router.step = "start"
    /\ received = 0
    /\ Len(routes) < MaxRoutes
    /\ routes' = Append(routes, Route(method, pattern, middleware, handler))
    /\ UNCHANGED <<stack, requestHandler, client, received, buffer, bufOff, srv,
                   parser, router, limiter, auth>>

\* router.resolve(method, path) on the table registered so far; resolve keeps
\* no state, so one call per table shows every result.
Resolve(method, path) ==
    /\ router.step = "start"
    /\ received = 0
    /\ router' = [step |-> "resolve", method |-> method, path |-> path,
                  out |-> resolve(routes, method, path)]
    /\ UNCHANGED <<stack, routes, requestHandler, client, received, buffer,
                   bufOff, srv, parser, limiter, auth>>

RouterNext ==
    \/ \E o \in RouteOptions : add(o.method, o.pattern, o.middleware, SyncHandler)
    \/ \E method \in ResolveMethods, path \in ResolvePaths : Resolve(method, path)
    \/ \E ps \in Streams(client.menu, client.quota - client.sent) :
          router.step = "start" /\ Data(ps, FALSE)

RouterSpec == RouterInit /\ [][RouterNext]_vars

(***************************************************************************)
(* The rate limiter on its own (middleware/rate-limiter.js): one instance  *)
(* of rateLimiter(options) is invoked for request after request while the  *)
(* clock advances, as the unit tests do with a mock response.              *)
(*                                                                         *)
(* limiter is a record: windowMs, maxRequests the options; clients the Map *)
(* of the instance; now the clock (Date.now(), milliseconds); swept the    *)
(* time of the last run of the cleanup timer; log the history of the       *)
(* invocations, the k-th of which has the response object k.               *)
(***************************************************************************)
\* The clock advances in steps of TickMs.
TickMs == 400

\* The number of steps of the clock.
MaxTicks == 3

\* The number of requests.
MaxHits == 4

LimiterOptions ==
    { [windowMs |-> 1200, maxRequests |-> 2],
      [windowMs |-> 800, maxRequests |-> 1] }

\* Where a request comes from: the x-forwarded-for header it carries ("" for
\* none) and the remote address of its socket.
Sources ==
    { [forwardedFor |-> "", remoteAddress |-> "10.0.0.1"],
      [forwardedFor |-> "", remoteAddress |-> "10.0.0.2"],
      [forwardedFor |-> "10.0.0.1", remoteAddress |-> "10.0.0.2"] }

RECURSIVE String(_)
\* String(n) of a non-negative integer
String(n) ==
    IF n < 10 THEN <<DecDigits[n + 1]>>
    ELSE String(n \div 10) \o <<DecDigits[(n % 10) + 1]>>

\* Math.ceil(a / b) for a >= 0, b > 0
Ceil(a, b) == (a + b - 1) \div b

\* The same for a limiter whose window is still open at its reset time.
Expired_After(entry, now) == now > entry.resetTime

\* now >= entry.resetTime
Expired(entry, now) == now >= entry.resetTime

\* rateLimiterMiddleware(req, res, next) at the time lim.now, res being the
\* response object r of st. The result: the state of the response and the
\* socket, the limiter, and whether next() was called.
rateLimiterMiddleware(st, lim, r, req) ==
    Let(IF req.forwardedFor # "" THEN req.forwardedFor
        ELSE IF req.remoteAddress # "" THEN req.remoteAddress
        ELSE "unknown", LAMBDA ip :
    Let(IF ip \notin DOMAIN lim.clients \/ Expired(lim.clients[ip], lim.now)
        THEN [count |-> 0, resetTime |-> lim.now + lim.windowMs]
        ELSE lim.clients[ip], LAMBDA fresh :
    Let([fresh EXCEPT !.count = @ + 1], LAMBDA entry :
    Let([lim EXCEPT !.clients = [k \in DOMAIN @ \cup {ip} |->
                                    IF k = ip THEN entry ELSE @[k]]], LAMBDA lim1 :
    Let(setHeader(setHeader(setHeader(st, r, "x-ratelimit-limit",
                                      String(lim.maxRequests)),
                            r, "x-ratelimit-remaining",
                            String(Max(0, lim.maxRequests - entry.count))),
                  r, "x-ratelimit-reset", String(Ceil(entry.resetTime, 1000))),
        LAMBDA st1 :
        IF entry.count > lim.maxRequests
        THEN [st |-> json(status(setHeader(st1, r, "retry-after",
                                           String(Ceil(entry.resetTime - lim.now, 1000))),
                                 r, 429),
                          r, "Too many requests, please try again later"),
              lim |-> lim1, passed |-> FALSE, ip |-> ip]
        ELSE [st |-> st1, lim |-> lim1, passed |-> TRUE, ip |-> ip])))))

LimiterInit ==
    /\ stack = <<>>
    /\ routes = <<>>
    /\ requestHandler = NoHandler
    /\ client = InitClient({}, 0)
    /\ parser = NoParser
    /\ router = NoRouter
    /\ auth = NoAuth
    /\ \E o \in LimiterOptions :
          limiter = [windowMs |-> o.windowMs, maxRequests |-> o.maxRequests,
                     clients |-> <<>>, now |-> 0, swept |-> 0, log |-> <<>>,
                     unswept |-> <<>>]
    /\ received = 0
    /\ buffer = <<>>
    /\ bufOff = 0
    /\ srv = InitSrv

\* The middleware is invoked for a request from the source req, with a fresh
\* response object. limiter.unswept is the map the same invocations leave
\* when the interval callback never runs; each log entry keeps what the
\* middleware does on that map (ref).
Hit(req) ==
    /\ Len(limiter.log) < MaxHits
    /\ \E o \in {rateLimiterMiddleware([srv EXCEPT !.res = Append(@, NewResponse)],
                                        limiter, Len(srv.res) + 1, req)},
          ref \in {rateLimiterMiddleware([srv EXCEPT !.res = Append(@, NewResponse)],
                                          [limiter EXCEPT !.clients = limiter.unswept],
                                          Len(srv.res) + 1, req)} :
          /\ srv' = o.st
          /\ limiter' = [o.lim EXCEPT
                           !.unswept = ref.lim.clients,
                           !.log = Append(@, [ip |-> o.ip, now |-> limiter.now,
                                              passed |-> o.passed,
                                              ref |-> [passed |-> ref.passed,
                                                       res |-> ref.st.res[Len(srv.res) + 1]]])]
    /\ UNCHANGED <<stack, routes, requestHandler, client, received, buffer, bufOff,
                   parser, router, auth>>

\* Date.now() advances.
Tick ==
    /\ limiter.now < MaxTicks * TickMs
    /\ limiter' = [limiter EXCEPT !.now = @ + TickMs]
    /\ UNCHANGED <<stack, routes, requestHandler, client, received, buffer, bufOff,
                   srv, parser, router, auth>>

\* The same for a callback that deletes every entry.
Sweep_All(clients, now) == <<>>

\* for (const [ip, entry] of clients) if (now >= entry.resetTime) clients.delete(ip)
Sweep(clients, now) ==
    [k \in {ip \in DOMAIN clients : ~(now >= clients[ip].resetTime)} |-> clients[k]]

\* The callback of setInterval(..., windowMs): the entries whose window is
\* over are deleted. The timer fires windowMs after its last run, or later.
Cleanup ==
    /\ limiter.now >= limiter.swept + limiter.windowMs
    /\ limiter' = [limiter EXCEPT
                     !.swept = limiter.now,
                     !.clients = Sweep(@, limiter.now)]
    /\ UNCHANGED <<stack, routes, requestHandler, client, received, buffer, bufOff,
                   srv, parser, router, auth>>

LimiterNext ==
    \/ \E req \in Sources : Hit(req)
    \/ Tick
    \/ Cleanup

LimiterSpec == LimiterInit /\ [][LimiterNext]_vars

(***************************************************************************)
(* Properties                                                              *)
(***************************************************************************)

\* The number of raw writes that response object r made: the ones that
\* reached the wire and the ones the ended socket dropped.
WritesOf(r) ==
    Cardinality({i \in 1..Len(srv.wire) : srv.wire[i].req = r})
    + Cardinality({i \in 1..Len(srv.lost) : srv.lost[i].req = r})

\* The number of responses of request r that reached the peer.
OnWire(r) == Cardinality({i \in 1..Len(srv.wire) : srv.wire[i].req = r})

\* C1: on one response object, however many terminal calls (send, json, text,
\* html, sendStatus) middleware, handlers and error handlers make, the first
\* one makes the object's only socket write and every later one writes
\* nothing; the headers-sent latch is set by the first call and, once set,
\* is never cleared.
C1_FirstTerminalCallAloneWrites ==
    /\ [](\A r \in DOMAIN srv.res :
            /\ srv.res[r].headersSent = (srv.res[r].sends >= 1)
            /\ WritesOf(r) = IF srv.res[r].sends >= 1 THEN 1 ELSE 0)
    /\ [][\A r \in DOMAIN srv.res :
            srv.res[r].headersSent => srv'.res[r].headersSent]_vars

\* C1 witness: a response object on which a route handler made two terminal
\* calls at once and three more from a callback.
C1_Witness_FiveCallsOneWrite ==
    \E r \in DOMAIN srv.res : srv.res[r].sends >= 5 /\ WritesOf(r) = 1

\* The value of the request's connection header, lower-cased; "" when the
\* request has none.  (Header names and values are byte strings.)
ConnectionOf(req) ==
    IF H_CONNECTION \in DOMAIN req.headers
    THEN ToLowerCase(req.headers[H_CONNECTION]) ELSE <<>>

\* What the claim says the decision is.
DecidedKeepAlive(req) ==
    \/ /\ req.httpVersion = <<"H", "T", "T", "P", "/", "1", ".", "1">>
       /\ ConnectionOf(req) # <<"c", "l", "o", "s", "e">>
    \/ /\ req.httpVersion = <<"H", "T", "T", "P", "/", "1", ".", "0">>
       /\ ConnectionOf(req) = <<"k", "e", "e", "p", "-", "a", "l", "i", "v", "e">>

\* C7: a request of HTTP/1.1 is kept alive unless its connection header is
\* `close` in any letter case, a request of HTTP/1.0 is closed unless its
\* connection header is `keep-alive` in any letter case, and the response's
\* connection header is `keep-alive` exactly when keep-alive was decided and
\* `close` otherwise.
C7_KeepAliveDecision ==
    \A r \in DOMAIN srv.reqs :
        /\ srv.reqs[r].keepAlive = DecidedKeepAlive(srv.reqs[r])
        /\ srv.res[r].headers["connection"] =
              IF srv.reqs[r].keepAlive THEN "keep-alive" ELSE "close"
        /\ \A i \in 1..Len(srv.wire) :
              srv.wire[i].req = r =>
                 srv.wire[i].headers["connection"] =
                    IF DecidedKeepAlive(srv.reqs[r]) THEN "keep-alive" ELSE "close"

\* C7 witness: a request of HTTP/1.0 with `Connection: Keep-Alive` answered
\* with `connection: keep-alive`.
C7_Witness_Http10KeptAlive ==
    \E i \in 1..Len(srv.wire) :
        /\ srv.wire[i].req # 0
        /\ srv.reqs[srv.wire[i].req].httpVersion = V_HTTP10
        /\ H_CONNECTION \in DOMAIN srv.reqs[srv.wire[i].req].headers
        /\ srv.reqs[srv.wire[i].req].headers[H_CONNECTION] =
              <<"K", "e", "e", "p", "-", "A", "l", "i", "v", "e">>
        /\ srv.wire[i].headers["connection"] = "keep-alive"


\* Request r has no callback pending.
Settled(r) == \A i \in 1..Len(srv.tasks) : srv.tasks[i].req # r

\* C2: while the peer keeps the connection and the idle timer has not fired,
\* every dispatched request whose middleware and handlers have all run has
\* exactly one response on its connection.
C2_EveryRequestAnsweredOnce ==
    \A r \in DOMAIN srv.reqs :
        (srv.sock # "closed" /\ ~srv.idle /\ Settled(r)) => OnWire(r) = 1

\* C3: the responses on a connection are in the order in which their
\* requests were received.
C3_ResponsesInRequestOrder ==
    \A i, j \in 1..Len(srv.wire) :
        (i < j /\ srv.wire[i].req # 0 /\ srv.wire[j].req # 0)
            => srv.wire[i].req < srv.wire[j].req

\* C4: every buffer handed to the parser starts behind the consumed bytes of
\* every request dispatched before, so no request is dispatched twice.
C4_ConsumedBytesNeverParsedAgain ==
    \A p \in 1..Len(srv.parses) :
        \A r \in 1..srv.parses[p].nreq :
            srv.reqs[r].start + srv.reqs[r].totalLength <= srv.parses[p].off

\* C5: when the driver ends the socket after a request that is not
\* keep-alive, the response of that request has been emitted.
C5_SocketEndedAfterResponse ==
    \A i \in 1..Len(srv.ends) : srv.ends[i].sent

\* C6: after a parser error there is one error response on the wire, with
\* `connection: close`, the socket is no longer open, and whatever bytes
\* arrive afterwards no request is dispatched and no response is written.
C6_NothingAfterParseError ==
    \A i \in 1..Len(srv.errors) :
        /\ srv.sock # "open"
        /\ Cardinality({w \in 1..Len(srv.wire) : srv.wire[w].req = 0}) <= 1
        /\ \A w \in 1..Len(srv.wire) :
              srv.wire[w].req = 0 => srv.wire[w].headers["connection"] = "close"
        /\ Len(srv.reqs) = srv.errors[i].nreq
        /\ Len(srv.wire) = srv.errors[i].nwire

\* The requests of the client that ask for keep-alive, and the well-formed
\* ones.
KeepAliveRequests ==
    { PostLength, ChunkedEmbedded,
      Get(P_E, V_HTTP10, HeaderLine(N_CONNECTION, <<"K", "e", "e", "p", "-", "A", "l", "i", "v", "e">>)) }

WellFormedRequests == Pieces \ {Garbage}

\* Where the i-th complete request of the last 'data' event starts in the
\* stream.
StartOfComplete(i) ==
    received - Len(client.last.tail)
        - Len(Concat(SubSeq(client.last.complete, i, Len(client.last.complete))))

\* C8: when a 'data' event leaves k complete keep-alive requests and then an
\* incomplete tail in the buffer, the k requests are dispatched in that
\* event in the order received and the connection buffer is the tail
\* afterwards.
C8_DrainLeavesTheTail ==
    LET l == client.last
        k == Len(l.complete)
    IN  ( /\ l.fresh
          /\ l.clean
          /\ \A i \in 1..k : l.complete[i] \in KeepAliveRequests
          /\ \E q \in WellFormedRequests :
                \E n \in 0..Len(q) - 1 : l.tail = SubSeq(q, 1, n) )
        => /\ Len(srv.reqs) = l.before + k
           /\ \A i \in 1..k :
                 /\ srv.reqs[l.before + i].start = StartOfComplete(i)
                 /\ srv.reqs[l.before + i].totalLength = Len(l.complete[i])
           /\ buffer = l.tail


\* C9: for a well-formed request B, parseRequest(B) and parseRequest(B ++ B)
\* return a request that consumed |B| bytes, and parsing what the latter
\* leaves returns an equal request that consumed |B| bytes again.
C9_DoubledRequestParsesTwice ==
    /\ (parser.b \in WellFormed /\ parser.step \in {"whole", "doubled"}) =>
          /\ parser.out.kind = "parsed"
          /\ parser.out.totalLength = Len(parser.b)
    /\ parser.step = "tail" =>
          /\ parser.input = parser.b
          /\ parser.out = parser.first

\* There is no header boundary in the buffer.
NoBoundary(buf) == \A i \in 0..(Len(buf) - 4) : ~MatchAt(buf, CRLF \o CRLF, i)

\* C10: for a well-formed request B and each proper prefix P of it,
\* parseRequest(P) is Incomplete, or fails with 413 when P has no header
\* boundary and is longer than the header cap.
C10_ProperPrefixIsIncomplete ==
    (parser.b \in WellFormed /\ parser.step = "prefix") =>
        IF NoBoundary(parser.input) /\ Len(parser.input) > 8 * 1024
        THEN parser.out.kind = "error" /\ parser.out.statusCode = 413
        ELSE parser.out.kind = "incomplete"

\* C11: on a buffer without a CR LF CR LF header boundary parseRequest fails
\* with status 413 "Headers too large" when the buffer is longer than the
\* 8 KiB header cap and returns Incomplete otherwise.
C11_NoBoundaryOverCapIs413 ==
    (parser.step \notin {"none", "start"} /\ NoBoundary(parser.input)) =>
        IF Len(parser.input) > 8 * 1024
        THEN /\ parser.out.kind = "error"
             /\ parser.out.statusCode = 413
             /\ parser.out.message = "Headers too large"
        ELSE parser.out.kind = "incomplete"

\* C12: a request that is not chunked and declares a content-length above
\* the 1 MiB body cap fails with status 413 "Payload too large" as soon as
\* its header section is complete, however many body bytes are buffered; a
\* declared length equal to the cap does not.
C12_OversizedLengthIs413 ==
    (parser.step \notin {"none", "start"} /\ ~NoBoundary(parser.input)) =>
        /\ parser.b \in {PostWith(OverCap, <<>>), PostWith(OverCap, <<"h", "i">>)} =>
              /\ parser.out.kind = "error"
              /\ parser.out.statusCode = 413
              /\ parser.out.message = "Payload too large"
        /\ parser.b = PostWith(AtCap, <<"h", "i">>) => parser.out.kind = "incomplete"

\* C12 witness: the header section of a request that declares 1048577 body
\* bytes has arrived and one of its two body bytes is buffered.
C12_Witness_CapBeforeCompleteness ==
    /\ parser.b = PostWith(OverCap, <<"h", "i">>)
    /\ parser.step = "prefix"
    /\ parser.input = SubSeq(parser.b, 1, Len(parser.b) - 1)
    /\ parser.out.kind = "error"
    /\ parser.out.statusCode = 413

\* The offset of the end of the header section of a buffer, the blank line
\* included.
HeaderEnd(buf) == IndexOf(buf, CRLF \o CRLF, 0) + 4

\* The body length a request declares: the value of its content-length
\* header when that is a positive integer in decimal digits, else 0.
DeclaredLength(req) ==
    IF /\ H_CONTENT_LENGTH \in DOMAIN req.headers
       /\ req.headers[H_CONTENT_LENGTH] # <<>>
       /\ \A k \in 1..Len(req.headers[H_CONTENT_LENGTH]) :
             \E d \in 1..10 : DecDigits[d] = req.headers[H_CONTENT_LENGTH][k]
    THEN ParseInt(req.headers[H_CONTENT_LENGTH], 10).val
    ELSE 0

\* C13: every request record parseRequest returns has consumed at least the
\* bytes up to the end of its header section, blank line included, plus the
\* declared body length, whatever the value of its content-length header
\* (the declared length of a value that is no positive integer is 0).
C13_ConsumedCoversHeaderAndBody ==
    (parser.step \notin {"none", "start"} /\ parser.out.kind = "parsed") =>
        parser.out.totalLength >= HeaderEnd(parser.input) + DeclaredLength(parser.out)

\* The well-formed chunked requests tried, each with the data of its chunks
\* in order; each request ends with its chunk of size 0.
ChunkedBodies ==
    { <<Chunked(<<"5">>, <<"h", "e", "l", "l", "o">>), <<"h", "e", "l", "l", "o">>>>,
      <<ChunkedTwo, <<"h", "i">> \o [i \in 1..10 |-> "c"]>>,
      <<ChunkedEmbedded, <<"0", "\r", "\n", "\r", "\n">>>>,
      <<ChunkedSixteen, <<"\r", "\n">> \o [i \in 1..14 |-> "b"]>> }

\* C14: for a chunked request that parses, consumed_bytes is the offset just
\* past the chunk of size 0 that ends the chunk sequence, also when the bytes
\* 0 CR LF CR LF occur before it in chunk data or at the end of a size line.
C14_ChunkedConsumedPastLastChunk ==
    \A p \in ChunkedBodies :
        (parser.b = p[1] /\ parser.step \in {"whole", "doubled"}
            /\ parser.out.kind = "parsed")
        => parser.out.totalLength = Len(p[1])

\* C15: the decoded body of a well-formed chunked request is the data of its
\* chunks before the chunk of size 0, in order, each with exactly its
\* declared number of bytes.
C15_ChunkedBodyIsChunkData ==
    \A p \in ChunkedBodies :
        (parser.b = p[1] /\ parser.step \in {"whole", "doubled"})
        => /\ parser.out.kind = "parsed"
           /\ parser.out.body = p[2]

\* C15 witness: the two chunks `hi` (size 2) and ten bytes (size a) decoded
\* to twelve bytes.
C15_Witness_TwoChunksDecoded ==
    /\ parser.b = ChunkedTwo
    /\ parser.step = "whole"
    /\ parser.out.kind = "parsed"
    /\ Len(parser.out.body) = 12
    /\ SubSeq(parser.out.body, 1, 3) = <<"h", "i", "c">>

\* The positions of the registered routes whose pattern matches the path,
\* and of those among them that have the method (route methods are stored in
\* upper case).
PatternHits(path) == {k \in 1..Len(routes) : RegexExec(routes[k], path).hit}

MethodHits(method, path) ==
    {k \in PatternHits(path) : routes[k].method = ToUpperCase(method)}

\* C16: for every route table, method and path, resolve returns without
\* raising, with status 200 when a route of the method matches the path,
\* 405 when only routes of other methods match it, and 404 when no route
\* matches it.
C16_ResolveReturnsOneStatus ==
    router.step = "resolve" =>
        /\ ~router.out.threw
        /\ router.out.status =
              IF MethodHits(router.method, router.path) # {} THEN 200
              ELSE IF PatternHits(router.path) # {} THEN 405
              ELSE 404

\* allowed is, each once, the methods of the registered routes that match
\* the path.
ExactAllowed(allowed, path) ==
    /\ {allowed[i] : i \in 1..Len(allowed)} = {routes[k].method : k \in PatternHits(path)}
    /\ \A i, j \in 1..Len(allowed) : allowed[i] = allowed[j] => i = j

\* C17: when resolve returns 405, allowed-methods is exactly the set of
\* methods of the registered routes that match the path, each once; the
\* driver answers such a request with one 405 response whose `allow` header
\* lists that set and whose JSON body is the error "Method Not Allowed", and
\* invokes no route middleware and no route handler.
C17_AllowedMethodsOn405 ==
    /\ (router.step = "resolve" /\ router.out.status = 405) =>
          ExactAllowed(router.out.allowedMethods, router.path)
    /\ \A r \in DOMAIN srv.reqs :
          LET result == resolve(routes, srv.reqs[r].method, srv.reqs[r].path)
              sent == {i \in 1..Len(srv.wire) : srv.wire[i].req = r}
          IN  result.status = 405 =>
                /\ ExactAllowed(result.allowedMethods, srv.reqs[r].path)
                /\ Cardinality(sent) = 1
                /\ \A i \in sent :
                      /\ srv.wire[i].statusCode = 405
                      /\ srv.wire[i].headers["allow"] = Join(result.allowedMethods)
                      /\ srv.wire[i].headers["content-type"] =
                            "application/json; charset=utf-8"
                      /\ srv.wire[i].body = "Method Not Allowed"
                /\ \A c \in 1..Len(srv.calls) :
                      srv.calls[c].req = r => srv.calls[c].who.kind \notin {"route", "handler"}

\* C17 witness: a DELETE request on a path that a POST route and a GET route
\* match, registered in this order, answered with 405 and `allow: POST, GET`.
C17_Witness_AllowListsBothMethods ==
    \E i \in 1..Len(srv.wire) :
        /\ srv.wire[i].req # 0
        /\ srv.reqs[srv.wire[i].req].method = M_DELETE
        /\ srv.wire[i].statusCode = 405
        /\ srv.wire[i].headers["allow"] = <<"P", "O", "S", "T", ",", " ", "G", "E", "T">>

\* The routes of the method for which Route.match(path) returns a match, the
\* static ones first.
Matched(method, path) ==
    {k \in MethodHits(method, path) : match(routes[k], path).matched}

StaticMatched(method, path) == {k \in Matched(method, path) : isStatic(routes[k])}

\* C18: if a static route and a dynamic route of the same method both match
\* a path, resolve returns a static route of that method with empty params,
\* in whatever order the routes were registered and whatever other routes
\* are registered.
C18_StaticBeatsDynamic ==
    ( /\ router.step = "resolve"
      /\ StaticMatched(router.method, router.path) # {}
      /\ StaticMatched(router.method, router.path) # Matched(router.method, router.path) )
        => /\ router.out.status = 200
           /\ router.out.route \in StaticMatched(router.method, router.path)
           /\ router.out.params = <<>>

\* C19: when the routes of the method that match a path are all static or
\* all dynamic, resolve returns the one registered first, with the params of
\* that route (its middleware and handler are the ones at its position).
C19_FirstRegistrationWins ==
    ( /\ router.step = "resolve"
      /\ Matched(router.method, router.path) # {}
      /\ StaticMatched(router.method, router.path)
            \in {{}, Matched(router.method, router.path)} )
        => \E first \in Matched(router.method, router.path) :
              /\ \A k \in Matched(router.method, router.path) : first <= k
              /\ router.out.status = 200
              /\ router.out.route = first
              /\ router.out.params = match(routes[first], router.path).params

\* The function calls next() once, without an argument, at once or from a
\* callback, and does nothing else on the request.
PassesOn(fn, req) == ScriptOf(fn, req).sync \o ScriptOf(fn, req).async = <<"next">>

\* The positions of the normal middleware in the stack, in registration
\* order.
NormalPositions == SelectSeq([k \in 1..Len(stack) |-> k], LAMBDA k : stack[k].arity = 3)

\* The invocations made for request r, in order.
CallsOf(r) == SelectSeq(srv.calls, LAMBDA c : c.req = r)

\* The positions of the entries of the stack that execute invoked as normal
\* middleware for request r, in order of invocation.
NormalCalls(r) ==
    [i \in 1..Len(SelectSeq(CallsOf(r), LAMBDA c : c.who.kind = "normal")) |->
        SelectSeq(CallsOf(r), LAMBDA c : c.who.kind = "normal")[i].who.pos]

\* A normal middleware invoked for request r has yet to call next().
NextPending(r) ==
    \E t \in 1..Len(srv.tasks) :
        /\ srv.tasks[t].req = r
        /\ srv.tasks[t].cl # 0
        /\ srv.closures[srv.tasks[t].cl].kind = "execute"

\* C20 witness: two normal middleware, then one that called next() from a
\* callback, were invoked in this order around an error handler that was
\* not, and the final handler was invoked after them.
C20_Witness_ThreeThenFinal ==
    \E r \in DOMAIN srv.reqs :
        /\ Len(stack) = 4
        /\ stack[2].arity = 4
        /\ NormalCalls(r) = <<1, 3, 4>>
        /\ \E i \in 1..Len(CallsOf(r)) : CallsOf(r)[i].who.kind = "final"
        /\ \A i \in 1..Len(CallsOf(r)) : CallsOf(r)[i].who.kind # "error"

\* C20: for a request on which every normal middleware calls next() once
\* without an argument and sends no response, execute invokes the normal
\* middleware in registration order, each once, invokes no error-handling
\* entry, and invokes the final handler once, after the last middleware
\* (an error handler runs only when a route handler raised, after the final
\* handler was invoked).
C20_MiddlewareInRegistrationOrder ==
    \A r \in DOMAIN srv.reqs :
        (\A k \in 1..Len(stack) : stack[k].arity = 3 => PassesOn(stack[k], srv.reqs[r]))
        => /\ Len(NormalCalls(r)) <= Len(NormalPositions)
           /\ NormalCalls(r) = SubSeq(NormalPositions, 1, Len(NormalCalls(r)))
           /\ \A i, j \in 1..Len(CallsOf(r)) :
                 /\ (CallsOf(r)[i].who.kind = "final" /\ CallsOf(r)[j].who.kind = "final")
                       => i = j
                 /\ (CallsOf(r)[i].who.kind = "final" /\ CallsOf(r)[j].who.kind = "normal")
                       => j < i
                 /\ CallsOf(r)[j].who.kind = "error"
                       => \E f \in 1..(j - 1) : CallsOf(r)[f].who.kind = "final"
           /\ (\E i \in 1..Len(CallsOf(r)) : CallsOf(r)[i].who.kind = "final")
                 = (NormalCalls(r) = NormalPositions /\ ~NextPending(r))

\* What the function at position i of the stack does before it returns, for
\* request r.
SyncOf(i, r) == ScriptOf(stack[i], srv.reqs[r]).sync

\* The function reports an error (a raise or next(e)) and has sent no
\* response before.
ReportsError(ops) ==
    \E k \in 1..Len(ops) :
       /\ ops[k] \in {"throw", "nextErr"}
       /\ \A m \in 1..(k - 1) : ops[m] \notin Terminals

\* The positions after i of the error handlers of the stack.
ErrorPositionsAfter(i) == {k \in (i + 1)..Len(stack) : stack[k].arity = 4}

\* C21: when the middleware at position i of the stack raises or calls
\* next(e), the entry invoked next for the request is the first error handler
\* at a position greater than i, and it is invoked with that error: no normal
\* middleware, no error handler before i and no final handler comes before it.
C21_ErrorReachesNextErrorHandler ==
    \A j \in 1..Len(srv.calls) :
       ( /\ srv.calls[j].who.kind = "normal"
         /\ ~srv.calls[j].sent
         /\ ReportsError(SyncOf(srv.calls[j].who.pos, srv.calls[j].req))
         /\ ErrorPositionsAfter(srv.calls[j].who.pos) # {} )
       => /\ j < Len(srv.calls)
          /\ srv.calls[j + 1].req = srv.calls[j].req
          /\ srv.calls[j + 1].who
                = [kind |-> "error",
                   pos |-> CHOOSE k \in ErrorPositionsAfter(srv.calls[j].who.pos) :
                              \A m \in ErrorPositionsAfter(srv.calls[j].who.pos) : k <= m]
          /\ srv.calls[j + 1].err = stack[srv.calls[j].who.pos].err

\* The entries that Pipeline.execute invokes: the functions of the stack and
\* the final handler.
ExecuteKinds == {"normal", "error", "final"}

\* C22: once a response has been emitted for a request, Pipeline.execute
\* invokes no further entry of the stack and no final handler for it, also
\* when the middleware that responded goes on to call next(), next(err) or to
\* raise.
C22_NothingInvokedAfterResponse ==
    \A j \in 1..Len(srv.calls) :
       srv.calls[j].who.kind \in ExecuteKinds => ~srv.calls[j].sent

\* A middleware at position 2 of 3 responded and called next(): the response
\* is on the wire, and neither the handler at position 3 nor the final
\* handler was invoked.
C22_Witness_RespondedThenCalledNext ==
    /\ Len(srv.reqs) = 1
    /\ Len(stack) = 3
    /\ SyncOf(2, 1) = <<"text", "next">>
    /\ srv.res[1].headersSent
    /\ \E j \in 1..Len(srv.calls) : srv.calls[j].who = [kind |-> "normal", pos |-> 2]
    /\ \A j \in 1..Len(srv.calls) :
          srv.calls[j].who.kind \in ExecuteKinds => srv.calls[j].who.pos \in {1, 2}

\* The responses written for request r, those that reached the peer and those
\* written after the socket was ended.
Written(r) == SelectSeq(srv.wire \o srv.lost, LAMBDA w : w.req = r)

\* The default response to an error: 500 with the JSON body whose error field
\* is the message of the error, or "Internal Server Error" for no message.
IsDefault500(w, err) ==
    /\ w.statusCode = 500
    /\ w.headers["content-type"] = "application/json; charset=utf-8"
    /\ w.body = IF MessageOf(err) = "" THEN "Internal Server Error" ELSE MessageOf(err)

\* C23: a walk of Pipeline.execute that comes to the end of the stack with an
\* error and no response sent emits exactly one response for the request, the
\* default 500 with the error's message ("Internal Server Error" for an empty
\* message), and does not invoke the final handler.
C23_UnhandledErrorGetsDefault500 ==
    \A k \in 1..Len(srv.unhandled) :
       ~srv.unhandled[k].sent
       => /\ Len(Written(srv.unhandled[k].req)) = 1
          /\ IsDefault500(Written(srv.unhandled[k].req)[1], srv.unhandled[k].err)
          /\ \A j \in (srv.unhandled[k].calls + 1)..Len(srv.calls) :
                ~(srv.calls[j].req = srv.unhandled[k].req /\ srv.calls[j].who.kind = "final")

\* An error without a message came to the end of a stack whose two error
\* handlers passed it on, and was answered "Internal Server Error".
C23_Witness_EmptyMessage ==
    /\ Len(srv.unhandled) = 1
    /\ srv.unhandled[1].err = "Error()"
    /\ Cardinality({j \in 1..Len(srv.calls) : srv.calls[j].who.kind = "error"}) = 2
    /\ Len(srv.wire) = 1
    /\ srv.wire[1].body = "Internal Server Error"

\* The calls for request r that Pipeline.execute made after the call at
\* position j of the history.
ExecuteCallsAfter(j, r) ==
    SelectSeq(SubSeq(srv.calls, j + 1, Len(srv.calls)),
              LAMBDA c : c.req = r /\ c.who.kind \in ExecuteKinds)

\* The normal middleware after position i of the stack, in stack order, and
\* then the final handler.
OkWalkAfter(i) ==
    [k \in 1..Len(SelectSeq(NormalPositions, LAMBDA p : p > i)) |->
        [kind |-> "normal", pos |-> SelectSeq(NormalPositions, LAMBDA p : p > i)[k]]]
    \o <<[kind |-> "final", pos |-> 0]>>

\* C28: an error handler of the stack that calls next() without an argument
\* clears the error: the walk goes on in ok state with the normal middleware
\* after it, skips the error handlers after it, and when those middleware
\* pass the request on it invokes the final handler and emits no default 500.
C28_NextWithoutArgumentClearsError ==
    \A j \in 1..Len(srv.calls) :
       ( /\ srv.calls[j].who.kind = "error"
         /\ SyncOf(srv.calls[j].who.pos, srv.calls[j].req) = <<"next">>
         /\ \A p \in (srv.calls[j].who.pos + 1)..Len(stack) :
               stack[p].arity = 3 => PassesOn(stack[p], srv.reqs[srv.calls[j].req]) )
       => /\ [k \in 1..Len(ExecuteCallsAfter(j, srv.calls[j].req)) |->
                 ExecuteCallsAfter(j, srv.calls[j].req)[k].who]
               = OkWalkAfter(srv.calls[j].who.pos)
          /\ \A k \in 1..Len(ExecuteCallsAfter(j, srv.calls[j].req)) :
                ExecuteCallsAfter(j, srv.calls[j].req)[k].err = NoErr
          /\ \A u \in 1..Len(srv.unhandled) : srv.unhandled[u].req # srv.calls[j].req

\* The error handler at position 3 of 5 was invoked with the error of the
\* middleware before it and cleared it: the middleware at position 4 and the
\* final handler were invoked, the error handler at position 5 was not.
C28_Witness_ClearedThenFinal ==
    /\ Len(srv.calls) >= 5
    /\ srv.calls[3].who = [kind |-> "error", pos |-> 3]
    /\ srv.calls[3].err = "denied"
    /\ SyncOf(3, 1) = <<"next">>
    /\ stack[5].arity = 4
    /\ srv.calls[4].who = [kind |-> "normal", pos |-> 4]
    /\ srv.calls[5].who.kind = "final"

\* C29: when the final handler raises (here the onRequest handler that the
\* driver's final handler invokes when no route is registered), the error
\* handlers are invoked with that error, the first registered one first.
C29_FinalHandlerRaiseReachesErrorHandlers ==
    \A j \in 1..Len(srv.calls) :
       ( /\ srv.calls[j].who = [kind |-> "handler", pos |-> 0]
         /\ ReportsError(ScriptOf(requestHandler, srv.reqs[srv.calls[j].req]).sync)
         /\ errorHandlers # <<>> )
       => \E k \in (j + 1)..Len(srv.calls) :
             /\ srv.calls[k].req = srv.calls[j].req
             /\ srv.calls[k].who.kind \in {"error", "handleError"}
             /\ srv.calls[k].err = requestHandler.err

\* The error handlers of the stack in registration order.
ErrorFns == SelectSeq(stack, LAMBDA fn : fn.arity = 4)

\* The calls that the handleError closure c made.
HandleErrorCalls(c) == SelectSeq(srv.calls, LAMBDA call : call.cl = c)

\* Every error handler passes the error it is given on and sends nothing.
AllPassOn(r) ==
    \A k \in 1..Len(ErrorFns) :
       ScriptOf(ErrorFns[k], srv.reqs[r]) = [sync |-> <<"pass">>, async |-> <<>>]

\* C30: Pipeline.handleError invokes the error handlers only, the first
\* registered one first and then in registration order, each with an error
\* and none after a response was sent; when all of them pass the error on,
\* exactly one response is emitted for the request, the default 500 with the
\* error's message.
C30_HandleErrorWalksErrorHandlers ==
    \A c \in 1..Len(srv.closures) :
       srv.closures[c].kind = "handleError"
       => /\ Len(HandleErrorCalls(c)) <= Len(ErrorFns)
          /\ \A k \in 1..Len(HandleErrorCalls(c)) :
                /\ HandleErrorCalls(c)[k].fn = ErrorFns[k]
                /\ HandleErrorCalls(c)[k].err # NoErr
                /\ ~HandleErrorCalls(c)[k].sent
          /\ (AllPassOn(srv.closures[c].req) /\ Len(HandleErrorCalls(c)) >= 1)
                => /\ Len(HandleErrorCalls(c)) = Len(ErrorFns)
                   /\ Len(Written(srv.closures[c].req)) = 1
                   /\ IsDefault500(Written(srv.closures[c].req)[1], srv.closures[c].err)

\* A route handler raised behind a stack of five entries: handleError invoked
\* the two error handlers among them, both passed the error on, and the
\* default 500 with the handler's message is on the wire.
C30_Witness_TwoPassThenDefault ==
    \E c \in 1..Len(srv.closures) :
       /\ srv.closures[c].kind = "handleError"
       /\ Len(stack) = 5
       /\ Len(HandleErrorCalls(c)) = 2
       /\ AllPassOn(srv.closures[c].req)
       /\ Len(srv.wire) = 1
       /\ srv.wire[1].statusCode = 500
       /\ srv.wire[1].body = "boom"

\* Request r was dispatched to a route that authGuard guards.
Guarded(r) ==
    /\ \E j \in 1..Len(srv.calls) : srv.calls[j].req = r /\ srv.calls[j].who.kind = "final"
    /\ Len(routes) > 0
    /\ ~resolve(routes, srv.reqs[r].method, srv.reqs[r].path).threw
    /\ resolve(routes, srv.reqs[r].method, srv.reqs[r].path).status = 200
    /\ \E k \in 1..Len(routes[resolve(routes, srv.reqs[r].method, srv.reqs[r].path).route].middleware) :
          routes[resolve(routes, srv.reqs[r].method, srv.reqs[r].path).route].middleware[k]
             = AuthGuardMw

\* The token of an Authorization header of the form `Bearer <token>`; <<>>
\* for a request without such a header.
BearerToken(req) ==
    IF /\ H_AUTHORIZATION \in DOMAIN req.headers
       /\ Len(req.headers[H_AUTHORIZATION]) > 7
       /\ SubSeq(req.headers[H_AUTHORIZATION], 1, 7) = <<"B", "e", "a", "r", "e", "r", " ">>
    THEN SubSeq(req.headers[H_AUTHORIZATION], 8, Len(req.headers[H_AUTHORIZATION]))
    ELSE <<>>

\* The calls of the route handler for request r.
HandlerCalls(r) ==
    SelectSeq(srv.calls, LAMBDA c : c.req = r /\ c.who.kind = "handler")

\* C27: the handler of a route guarded by authGuard is invoked only for a
\* request whose Authorization header is `Bearer <token>` with a token that
\* verifyToken accepts, and finds the decoded payload in req.user; every other
\* request to the route gets exactly one response, a 401, and the handler is
\* not invoked.
C27_GuardedHandlerNeedsValidToken ==
    \A r \in DOMAIN srv.reqs :
       Guarded(r)
       => IF BearerToken(srv.reqs[r]) # <<>> /\ verifyToken(BearerToken(srv.reqs[r])).valid
          THEN \A j \in 1..Len(HandlerCalls(r)) :
                  HandlerCalls(r)[j].user = verifyToken(BearerToken(srv.reqs[r])).decoded
          ELSE /\ HandlerCalls(r) = <<>>
               /\ Len(Written(r)) = 1
               /\ Written(r)[1].statusCode = 401

\* A request with `Authorization: Bearer good` reached the handler of the
\* guarded route, which found the payload of the token in req.user.
C27_Witness_TokenAccepted ==
    /\ Len(srv.reqs) = 1
    /\ Guarded(1)
    /\ BearerToken(srv.reqs[1]) = T_GOOD
    /\ Len(HandlerCalls(1)) = 1
    /\ HandlerCalls(1)[1].user = "alice"
    /\ Len(srv.wire) = 1
    /\ srv.wire[1].statusCode = 200

\* The calls for the request of the call at position h of the history that
\* came before it.
Before(h) ==
    SelectSeq(SubSeq(srv.calls, 1, h - 1), LAMBDA c : c.req = srv.calls[h].req)

\* The function of the call calls next() without an argument for the
\* request, at once or from a callback.
CallsNext(call) ==
    \E k \in 1..Len(ScriptOf(call.fn, srv.reqs[call.req]).sync
                       \o ScriptOf(call.fn, srv.reqs[call.req]).async) :
       (ScriptOf(call.fn, srv.reqs[call.req]).sync
           \o ScriptOf(call.fn, srv.reqs[call.req]).async)[k] = "next"

\* The function of the call sends a response or reports an error for the
\* request before it calls next(), if it does.
RespondsOrReports(call) ==
    \E k \in 1..Len(ScriptOf(call.fn, srv.reqs[call.req]).sync) :
       /\ ScriptOf(call.fn, srv.reqs[call.req]).sync[k] \in Terminals \cup {"throw", "nextErr"}
       /\ \A m \in 1..(k - 1) : ScriptOf(call.fn, srv.reqs[call.req]).sync[m] # "next"

\* The order of the calls up to the call h of a route handler: entries of the
\* stack at growing positions, the last of which called next(); the final
\* handler; the middleware of the route in list order, each of which called
\* next(); and no response sent when the handler is invoked.
OrderedUpTo(h) ==
    /\ ~srv.calls[h].sent
    /\ \E f \in 1..Len(Before(h)) :
          /\ Before(h)[f].who.kind = "final"
          /\ \A i \in 1..(f - 1) : Before(h)[i].who.kind \in {"normal", "error"}
          /\ \A i, j \in 1..(f - 1) :
                i < j => Before(h)[i].who.pos < Before(h)[j].who.pos
          /\ f > 1 => CallsNext(Before(h)[f - 1])
          /\ Len(Before(h)) - f = Len(routes[srv.calls[h].who.pos].middleware)
          /\ \A i \in 1..(Len(Before(h)) - f) :
                /\ Before(h)[f + i].who = [kind |-> "route", pos |-> i]
                /\ Before(h)[f + i].fn = routes[srv.calls[h].who.pos].middleware[i]
                /\ CallsNext(Before(h)[f + i])

ForwardedAfter(j, err) ==
    \E k \in (j + 1)..Len(srv.calls) :
       /\ srv.calls[k].req = srv.calls[j].req
       /\ srv.calls[k].who = [kind |-> "handleError", pos |-> 1]
       /\ srv.calls[k].fn = ErrorFns[1]
       /\ srv.calls[k].err = err

\* C26: when a middleware of a route reports an error (a raise or next(err))
\* or the handler of the route raises, the error goes to handleError, so that
\* the first registered error handler is invoked with that error; when it was
\* a middleware of the route, the handler of the route is not invoked.
C26_RouteErrorsGoToHandleError ==
    \A j \in 1..Len(srv.calls) :
       ( /\ srv.calls[j].who.kind \in {"route", "handler"}
         /\ srv.calls[j].who.kind = "handler" => srv.calls[j].who.pos >= 1
         /\ ~srv.calls[j].sent
         /\ ReportsError(ScriptOf(srv.calls[j].fn, srv.reqs[srv.calls[j].req]).sync)
         /\ ErrorFns # <<>> )
       => /\ ForwardedAfter(j, srv.calls[j].fn.err)
          /\ srv.calls[j].who.kind = "route" => HandlerCalls(srv.calls[j].req) = <<>>

RECURSIVE WindowAt(_, _)
\* The window of the client key ip after the first i invocations of the
\* limiter: its reset time (-1 before the first request of the key) and the
\* number n of requests of the key in it. A request at or after the reset
\* time of the window before opens a window that lasts windowMs.
WindowAt(i, ip) ==
    IF i = 0 THEN [resetTime |-> -1, n |-> 0]
    ELSE IF limiter.log[i].ip # ip THEN WindowAt(i - 1, ip)
    ELSE IF \/ WindowAt(i - 1, ip).resetTime = -1
            \/ limiter.log[i].now >= WindowAt(i - 1, ip).resetTime
    THEN [resetTime |-> limiter.log[i].now + limiter.windowMs, n |-> 1]
    ELSE [resetTime |-> WindowAt(i - 1, ip).resetTime, n |-> WindowAt(i - 1, ip).n + 1]

\* The response to a request over the limit: 429 with a retry-after header
\* that is a number >= 0 and x-ratelimit-remaining: 0.
IsTooMany(w) ==
    /\ w.statusCode = 429
    /\ "retry-after" \in DOMAIN w.headers
    /\ ~ParseInt(w.headers["retry-after"], 10).nan
    /\ ParseInt(w.headers["retry-after"], 10).val >= 0
    /\ w.headers["x-ratelimit-remaining"] = <<"0">>

\* C24: for one rate-limiter instance, each client key and each of its
\* windows, the first maxRequests requests of the window are passed on with
\* next() and get no response from the limiter; every later request of the
\* window is not passed on and gets one response, 429 with retry-after >= 0
\* and x-ratelimit-remaining: 0.
C24_WindowPassesFirstMaxRequests ==
    \A i \in 1..Len(limiter.log) :
       /\ limiter.log[i].passed
             = (WindowAt(i, limiter.log[i].ip).n <= limiter.maxRequests)
       /\ IF limiter.log[i].passed THEN Written(i) = <<>>
          ELSE Len(Written(i)) = 1 /\ IsTooMany(Written(i)[1])

\* With maxRequests 2 the same key sent four requests: two in a window and
\* passed on, a third in the same window answered 429, and a fourth after the
\* reset time, passed on again.
C24_Witness_ThirdLimitedThenNewWindow ==
    /\ Len(limiter.log) = 4
    /\ limiter.maxRequests = 2
    /\ \A i \in 1..4 : limiter.log[i].ip = "10.0.0.1"
    /\ [i \in 1..4 |-> limiter.log[i].passed] = <<TRUE, TRUE, FALSE, TRUE>>
    /\ limiter.log[3].now < limiter.windowMs
    /\ srv.wire[1].headers["retry-after"] = <<"1">>

\* C31: handleError walks the error handlers by the rules of execute: when an
\* error handler that handleError invoked calls next() without an argument,
\* the error is cleared, so no later error handler is invoked with it and no
\* default 500 is emitted for it.
C31_HandleErrorNextClearsError ==
    \A j \in 1..Len(srv.calls) :
       ( /\ srv.calls[j].who.kind = "handleError"
         /\ ScriptOf(srv.calls[j].fn, srv.reqs[srv.calls[j].req]).sync = <<"next">> )
       => /\ \A k \in (j + 1)..Len(srv.calls) :
                ~( /\ srv.calls[k].cl = srv.calls[j].cl
                   /\ srv.calls[k].who.kind = "handleError"
                   /\ srv.calls[k].err = srv.calls[j].err )
          /\ \A w \in 1..Len(Written(srv.calls[j].req)) :
                ~IsDefault500(Written(srv.calls[j].req)[w], srv.calls[j].err)

\* The calls of done that the runMiddlewareStack closure c made.
DonesOf(c) == SelectSeq(srv.dones, LAMBDA d : d.cl = c)

\* The calls of middleware that the runMiddlewareStack closure c made.
StackCalls(c) == SelectSeq(srv.calls, LAMBDA call : call.cl = c)

\* C32: runMiddlewareStack invokes the middleware of its list in list order
\* and never an error handler; it completes at most once: with done() when
\* every middleware was invoked and called next() without an argument, with
\* done(err) at the first raise or next(err), after which no middleware is
\* invoked; and it calls done never once a response was sent.
C32_StackCompletesOnce ==
    \A c \in 1..Len(srv.closures) :
       srv.closures[c].kind = "runMiddlewareStack"
       => /\ \A k \in 1..Len(StackCalls(c)) :
                /\ StackCalls(c)[k].who = [kind |-> "route", pos |-> k]
                /\ StackCalls(c)[k].fn = routes[srv.closures[c].route].middleware[k]
                /\ StackCalls(c)[k].fn.arity # 4
          /\ Len(DonesOf(c)) <= 1
          /\ \A d \in 1..Len(DonesOf(c)) :
                /\ ~DonesOf(c)[d].sent
                /\ DonesOf(c)[d].err = NoErr
                      => /\ Len(StackCalls(c)) = Len(routes[srv.closures[c].route].middleware)
                         /\ \A k \in 1..Len(StackCalls(c)) : CallsNext(StackCalls(c)[k])
                /\ DonesOf(c)[d].err # NoErr
                      => \A k \in (DonesOf(c)[d].calls + 1)..Len(srv.calls) :
                            srv.calls[k].cl # c

\* C33: for one request the final handler is invoked at most once, and the
\* route handler at most once, whatever the middleware do.
C33_FinalAndHandlerAtMostOnce ==
    \A r \in DOMAIN srv.reqs :
       /\ Cardinality({j \in 1..Len(srv.calls) :
                          srv.calls[j].req = r /\ srv.calls[j].who.kind = "final"}) <= 1
       /\ Len(HandlerCalls(r)) <= 1

\* C34: every request the parser returns has one of the methods GET, POST,
\* PUT, DELETE, PATCH, HEAD, OPTIONS; a request line with any other first
\* token fails with status 400.
C34_MethodInClosedSet ==
    parser.step = "whole"
    => IF SubSeq(parser.input, 1, IndexOf(parser.input, <<" ">>, 0))
            \in { <<"G", "E", "T">>, <<"P", "O", "S", "T">>, <<"P", "U", "T">>,
                  <<"D", "E", "L", "E", "T", "E">>, <<"P", "A", "T", "C", "H">>,
                  <<"H", "E", "A", "D">>, <<"O", "P", "T", "I", "O", "N", "S">> }
       THEN parser.out.kind = "parsed"
               => parser.out.method = SubSeq(parser.input, 1, IndexOf(parser.input, <<" ">>, 0))
       ELSE parser.out.kind = "error" /\ parser.out.statusCode = 400

\* A byte sequence that is a hexadecimal number: one or more hex digits.
IsHexNumber(s) ==
    /\ s # <<>>
    /\ \A k \in 1..Len(s) : ~DigitRun(<<s[k]>>, 1, 16, 0)[1] = 0

\* C35: decoding a chunked body fails with status 400 "Invalid chunk size"
\* on every chunk-size line that is not a hexadecimal number, and with
\* "Incomplete chunk data" on a chunk whose declared size exceeds the bytes
\* that follow; no request record is returned in either case.
C35_BadChunkSizeFails ==
    \A c \in OddChunks :
        (parser.step = "whole" /\ parser.b = c[1])
        => /\ parser.out.kind = "error"
           /\ parser.out.statusCode = 400
           /\ parser.out.message =
                 IF IsHexNumber(c[2]) THEN "Incomplete chunk data"
                 ELSE "Invalid chunk size"

\* C37: every request record parseRequest returns removes at least one byte
\* and at most the whole buffer it was parsed from (0 < consumed <= buffer
\* length), whatever the value of the content-length header, so the drain
\* loop of _processBuffer ends on every buffer.
C37_ConsumedPositiveAndWithinBuffer ==
    (parser.step \notin {"none", "start"} /\ parser.out.kind = "parsed")
    => /\ 0 < parser.out.totalLength
       /\ parser.out.totalLength <= Len(parser.input)

(***************************************************************************)
(* BodySpec: parseRequest on one request with a body of a given length in  *)
(* either framing. `parser` holds the framing, the length and what         *)
(* parseRequest answered: the kind, the status and message of an error,    *)
(* the length of the body of a request record.                             *)
(***************************************************************************)
\* The largest of the small body lengths tried.
MaxBody == 48

\* The body lengths tried: small ones, the cap, and one byte more.
BodySizes == (0..MaxBody) \cup {MAX_BODY_SIZE, MAX_BODY_SIZE + 1}

RECURSIVE ToHex(_)
\* n.toString(16) of a non-negative integer
ToHex(n) ==
    IF n < 16 THEN <<HexDigits[n + 1]>>
    ELSE ToHex(n \div 16) \o <<HexDigits[(n % 16) + 1]>>

\* A request with n body bytes: behind a content-length header, or as one
\* chunk before the last chunk.
Framed(framing, n) ==
    IF framing = "chunked" THEN Chunked(ToHex(n), [i \in 1..n |-> "c"])
    ELSE PostWith(String(n), [i \in 1..n |-> "c"])

\* What parseRequest answered, with the body of a request record replaced
\* by its length.
Outcome(r) ==
    IF r.kind = "parsed"
    THEN [kind |-> "parsed", bodyLength |-> Len(r.body), totalLength |-> r.totalLength]
    ELSE IF r.kind = "error"
    THEN [kind |-> "error", statusCode |-> r.statusCode, message |-> r.message]
    ELSE [kind |-> r.kind]

BodyInit ==
    /\ stack = <<>>
    /\ routes = <<>>
    /\ requestHandler = NoHandler
    /\ client = InitClient({}, 0)
    /\ received = 0
    /\ buffer = <<>>
    /\ bufOff = 0
    /\ srv = InitSrv
    /\ router = NoRouter
    /\ limiter = NoLimiter
    /\ auth = NoAuth
    /\ \E framing \in {"length", "chunked"}, n \in BodySizes :
          parser = [step |-> "body", framing |-> framing, size |-> n,
                    out |-> [kind |-> "none"]]

BodyParsed(step, input) ==
    /\ parser.step = "body"
    /\ parser' = [parser EXCEPT !.step = step, !.out = Outcome(parseRequest(input))]
    /\ UNCHANGED <<stack, routes, requestHandler, client, received, buffer,
                   bufOff, srv, router, limiter, auth>>

\* parseRequest on the whole request
ParseFramed == BodyParsed("framed", Framed(parser.framing, parser.size))

\* parseRequest on the request without its last byte
ParseFramedShort ==
    BodyParsed("short", Slice(Framed(parser.framing, parser.size), 0, -1))

BodyNext ==
    \/ ParseFramed
    \/ ParseFramedShort

BodySpec == BodyInit /\ [][BodyNext]_vars

\* C38: parseRequest returns no request whose body is longer than the 1 MiB
\* body cap, in either body framing; a request with a body over the cap is
\* answered with the error of status 413.
C38_NoBodyOverCap ==
    parser.step = "framed"
    => /\ parser.out.kind = "parsed" => parser.out.bodyLength <= MAX_BODY_SIZE
       /\ parser.size > MAX_BODY_SIZE
             => parser.out.kind = "error" /\ parser.out.statusCode = 413

\* C39: the interval callback of the rate limiter deletes only entries whose
\* reset time has passed, and no request can tell whether it ran: however
\* the callback is interleaved with the requests, each request is passed on
\* or answered 429 with the status, the x-ratelimit-* and the other headers
\* and the body it gets when the callback never runs.
C39_SweepIsInvisible ==
    /\ \A ip \in DOMAIN limiter.unswept :
          IF ip \in DOMAIN limiter.clients
          THEN limiter.clients[ip] = limiter.unswept[ip]
          ELSE limiter.unswept[ip].resetTime <= limiter.swept
    /\ DOMAIN limiter.clients \subseteq DOMAIN limiter.unswept
    /\ \A i \in 1..Len(limiter.log) :
          /\ limiter.log[i].passed = limiter.log[i].ref.passed
          /\ srv.res[i] = limiter.log[i].ref.res

\* C39 witness: with maxRequests 1 a key spent its window, the callback
\* deleted its entry after the reset time, and the next request of the key,
\* which found no entry, was passed on as it is when the entry is still
\* there.
C39_Witness_RequestAfterSweep ==
    \E i \in 2..Len(limiter.log) :
        /\ limiter.maxRequests = 1
        /\ \A j \in 1..i : limiter.log[j].ip = limiter.log[1].ip
        /\ \A j \in 1..(i - 1) :
              limiter.log[j].now < limiter.log[1].now + limiter.windowMs
        /\ limiter.log[1].now + limiter.windowMs <= limiter.swept
        /\ limiter.swept <= limiter.log[i].now
        /\ ~limiter.log[2].passed
        /\ limiter.log[i].passed
        /\ srv.res[i].headers["x-ratelimit-remaining"] = <<"0">>

\* C40: the rate limiter counts a request against the entry of the remote
\* address it arrives from, whatever headers it carries: after the
\* middleware ran for a request, the entry of the request's remote address
\* exists, and it is the entry that was opened or incremented.
C40_CountedByRemoteAddress ==
    [][\A req \in Sources :
          Hit(req) =>
             /\ req.remoteAddress \in DOMAIN limiter'.clients
             /\ limiter'.log[Len(limiter'.log)].ip = req.remoteAddress]_vars

(***************************************************************************)
(* AuthSpec: POST /auth/register of registerAuthRoutes in in-memory mode.  *)
(* auth is a record: userStore the Map from email to user; reqs the        *)
(* register requests in the order they arrived, each with its sanitized    *)
(* email, its password, where it stands ("rejected" by the handler,        *)
(* "hashing" while hashPassword is pending, "answered" by the callback of  *)
(* the hash) and the response it got; now the clock.                       *)
(* bcrypt.hash is taken to fulfil for every validated password, with a     *)
(* salt of its own for each call.                                          *)
(***************************************************************************)
\* The number of register requests.
MaxRegs == 3

\* The number of steps of the clock.
MaxClock == 1

\* The parsed bodies sent to POST /auth/register (present FALSE: none).
RegisterBodies ==
    { [present |-> TRUE, email |-> <<"a", "@", "b", ".", "c">>,
       password |-> <<"p", "a", "s", "s", "w", "0", "r", "d">>],
      [present |-> TRUE, email |-> <<" ", "a", "@", "b", ".", "c", "\n">>,
       password |-> <<"h", "u", "n", "t", "e", "r", "2", "2">>],
      [present |-> TRUE, email |-> <<"d", "@", "e", ".", "f">>,
       password |-> <<"p", "a", "s", "s", "w", "0", "r", "d">>],
      [present |-> TRUE, email |-> <<"a", "@", "b">>,
       password |-> <<"p", "a", "s", "s", "w", "0", "r", "d">>],
      [present |-> TRUE, email |-> <<"a", "@", "b", ".", "c">>,
       password |-> <<"s", "h", "o", "r", "t", "1">>],
      [present |-> FALSE, email |-> <<>>, password |-> <<>>] }

\* str.trim().replace(/[\x00-\x08\x0B\x0C\x0E-\x1F\x7F]/g, ''); of the bytes
\* of the model the form feed is in that class.
sanitize(str) == SelectSeq(Trim(str), LAMBDA c : c # "\f")

\* /^[^\s@]+@[^\s@]+\.[^\s@]+$/.test(email)
isValidEmail(email) ==
    /\ \A k \in 1..Len(email) : email[k] \notin WhiteSpace
    /\ Cardinality({k \in 1..Len(email) : email[k] = "@"}) = 1
    /\ \E k \in 2..Len(email) :
          /\ email[k] = "@"
          /\ \E d \in (k + 2)..(Len(email) - 1) : email[d] = "."

\* validatePassword(password) of a string: the reason, "" for valid
validatePassword(password) ==
    IF Len(password) < 8 THEN "Password must be at least 8 characters"
    ELSE IF ~\E k \in 1..Len(password) : \E j \in 1..26 :
                password[k] \in {UpperChars[j], LowerChars[j]}
    THEN "Password must contain at least one letter"
    ELSE IF ~\E k \in 1..Len(password) : \E j \in 1..10 : password[k] = DecDigits[j]
    THEN "Password must contain at least one digit"
    ELSE ""

\* A register request the handler answered itself.
Rejected(email, password, message) ==
    [email |-> email, password |-> password, state |-> "rejected",
     statusCode |-> 400, message |-> message]

\* The handler of POST /auth/register up to the call of hashPassword.
registerHandler(a, body) ==
    [a EXCEPT !.reqs = Append(@,
        IF ~body.present
        THEN Rejected(<<>>, <<>>, "Request body is required")
        ELSE IF ~isValidEmail(sanitize(body.email))
        THEN Rejected(sanitize(body.email), body.password, "Invalid email address")
        ELSE IF validatePassword(body.password) # ""
        THEN Rejected(sanitize(body.email), body.password,
                      validatePassword(body.password))
        ELSE [email |-> sanitize(body.email), password |-> body.password,
              state |-> "hashing", statusCode |-> 0, message |-> ""])]

\* The same for a store that never finds an entry.
StoreHas_Never(userStore, email) == FALSE

\* userStore.has(email)
StoreHas(userStore, email) == email \in DOMAIN userStore

\* The callback of hashPassword(password).then for request i, in-memory
\* mode; the hash is the password with the salt of the call.
registerHashed(a, i) ==
    IF StoreHas(a.userStore, a.reqs[i].email)
    THEN [a EXCEPT !.reqs[i].state = "answered",
                   !.reqs[i].statusCode = 409,
                   !.reqs[i].message = "Email already registered"]
    ELSE [a EXCEPT !.userStore =
                       [e \in DOMAIN @ \cup {a.reqs[i].email} |->
                           IF e = a.reqs[i].email
                           THEN [id |-> a.now, email |-> a.reqs[i].email, name |-> <<>>,
                                 password |-> [of |-> a.reqs[i].password, salt |-> i]]
                           ELSE @[e]],
                   !.reqs[i].state = "answered",
                   !.reqs[i].statusCode = 201,
                   !.reqs[i].message = "User registered successfully"]

AuthInit ==
    /\ stack = <<>>
    /\ routes = <<>>
    /\ requestHandler = NoHandler
    /\ client = InitClient({}, 0)
    /\ received = 0
    /\ buffer = <<>>
    /\ bufOff = 0
    /\ srv = InitSrv
    /\ parser = NoParser
    /\ router = NoRouter
    /\ limiter = NoLimiter
    /\ auth = [userStore |-> <<>>, reqs |-> <<>>, now |-> 0]

\* A register request arrives and its handler runs.
Register(body) ==
    /\ Len(auth.reqs) < MaxRegs
    /\ auth' = registerHandler(auth, body)
    /\ UNCHANGED <<stack, routes, requestHandler, client, received, buffer, bufOff,
                   srv, parser, router, limiter>>

\* The hash of request i is ready and its callback runs.
HashResolved(i) ==
    /\ auth.reqs[i].state = "hashing"
    /\ auth' = registerHashed(auth, i)
    /\ UNCHANGED <<stack, routes, requestHandler, client, received, buffer, bufOff,
                   srv, parser, router, limiter>>

\* Date.now() advances.
AuthTick ==
    /\ auth.now < MaxClock
    /\ auth' = [auth EXCEPT !.now = @ + 1]
    /\ UNCHANGED <<stack, routes, requestHandler, client, received, buffer, bufOff,
                   srv, parser, router, limiter>>

AuthNext ==
    \/ \E body \in RegisterBodies : Register(body)
    \/ \E i \in 1..Len(auth.reqs) : HashResolved(i)
    \/ AuthTick

AuthSpec == AuthInit /\ [][AuthNext]_vars

\* The register requests with the email e whose hash callback has run.
AnsweredFor(e) ==
    {i \in 1..Len(auth.reqs) : auth.reqs[i].state = "answered" /\ auth.reqs[i].email = e}

\* C36: in in-memory mode, whatever the order in which the password hashes
\* of register requests with the same email complete, exactly one of the
\* requests answered so far got 201 and every other one 409, and the user
\* store has one entry for the email, with the password hash of the request
\* that got 201; an email none of whose requests was answered has no entry.
C36_OneRegistrationPerEmail ==
    \A e \in {auth.reqs[i].email : i \in 1..Len(auth.reqs)} \cup DOMAIN auth.userStore :
        IF AnsweredFor(e) = {} THEN e \notin DOMAIN auth.userStore
        ELSE /\ e \in DOMAIN auth.userStore
             /\ \E w \in AnsweredFor(e) :
                   /\ auth.reqs[w].statusCode = 201
                   /\ auth.userStore[e].password = [of |-> auth.reqs[w].password, salt |-> w]
                   /\ auth.userStore[e].email = e
                   /\ \A i \in AnsweredFor(e) \ {w} : auth.reqs[i].statusCode = 409

\* C36 witness: three requests for the same email, sent with different
\* passwords; the hash of the second completed first, so the second got 201
\* and the first and the third 409, and the store has the hash of the second.
C36_Witness_LaterRequestWins ==
    /\ Len(auth.reqs) = 3
    /\ \A i \in 1..3 : auth.reqs[i].email = <<"a", "@", "b", ".", "c">>
    /\ auth.reqs[1].password # auth.reqs[2].password
    /\ [i \in 1..3 |-> auth.reqs[i].statusCode] = <<409, 201, 409>>
    /\ auth.userStore[<<"a", "@", "b", ".", "c">>].password.salt = 2

====
